---------------------------- MODULE Spec2Model ----------------------------
(***************************************************************************)
(* A model of the comment acquisition pipeline of commit-summary:          *)
(*   - the URL/ID resolvers (_extract_video_id of the four scrapers),      *)
(*   - DouyinAPIScraper.scrape (src/src/douyin_api.py),                    *)
(*   - TikTokAPIScraper.scrape_video_comments (scraper/tiktok.py),         *)
(*   - DouyinScraperPro.scrape and its deduplicator (src/src/douyin_pro.py)*)
(*   - LLMClient._parse_sentiment_response (llm/client.py).                *)
(*                                                                         *)
(* Python strings are modelled as sequences of one-character strings, so   *)
(* that split, strip, startswith and slicing are computed as Python        *)
(* computes them.  A missing dictionary key is the value Absent.           *)
(***************************************************************************)
EXTENDS Integers, Sequences, FiniteSets, TLC

VARIABLES
    \* ---- resolver harness: one URL, resolved by each of the four classes
    res_url,        \* the URL string
    res_pc,         \* "off" | "input"
    res_out         \* class -> the id it returned, or NotResolved

res_vars == <<res_url, res_pc, res_out>>

(***************************************************************************)
(* Python string primitives                                                *)
(***************************************************************************)

\* s[i:] for a 0-based i, 0 <= i (Python slicing never raises).
DropFirst(s, i) == IF i >= Len(s) THEN <<>> ELSE SubSeq(s, i + 1, Len(s))

\* s[:n] for n >= 0.
Take(s, n) == IF n >= Len(s) THEN s ELSE SubSeq(s, 1, n)

\* s[a:-b] for a, b >= 0 with b > 0: the characters from index a up to, and
\* excluding, the last b ones; empty when the two ends cross.
Slice(s, a, b) == IF Len(s) - b <= a THEN <<>> ELSE SubSeq(s, a + 1, Len(s) - b)

\* sub occurs in s at the 1-based position i.
OccursAt(s, sub, i) ==
    /\ i >= 1
    /\ i + Len(sub) - 1 <= Len(s)
    /\ \A k \in 1..Len(sub) : s[i + k - 1] = sub[k]

\* Python's `sub in s`.
Contains(s, sub) == \E i \in 1..(Len(s) + 1) : OccursAt(s, sub, i)

\* s.startswith(p)
StartsWith(s, p) == OccursAt(s, p, 1)

\* The position of the leftmost occurrence of sub in s (sub occurs in s).
FirstIndex(s, sub) ==
    CHOOSE i \in 1..(Len(s) + 1) :
        /\ OccursAt(s, sub, i)
        /\ \A j \in 1..(i - 1) : ~OccursAt(s, sub, j)

\* s.split(sep)[0]: what precedes the leftmost occurrence of sep, or all of s.
SplitFirst(s, sep) ==
    IF Contains(s, sep) THEN SubSeq(s, 1, FirstIndex(s, sep) - 1) ELSE s

\* s.split(sep)[-1]: split scans from the left and never overlaps two matches,
\* so the last piece is what follows the last match of that scan.
RECURSIVE SplitLast(_, _)
SplitLast(s, sep) ==
    IF Contains(s, sep)
    THEN SplitLast(DropFirst(s, FirstIndex(s, sep) + Len(sep) - 1), sep)
    ELSE s

\* str.strip(): whitespace removed at both ends.
Whitespace == {" ", "\n"}

RECURSIVE LStrip(_)
LStrip(s) ==
    IF s # <<>> /\ s[1] \in Whitespace THEN LStrip(Tail(s)) ELSE s

RECURSIVE RStrip(_)
RStrip(s) ==
    IF s # <<>> /\ s[Len(s)] \in Whitespace
    THEN RStrip(SubSeq(s, 1, Len(s) - 1))
    ELSE s

Strip(s) == LStrip(RStrip(s))

\* dict.get(key) of a key that is not there.
Absent == <<"<absent>">>

(***************************************************************************)
(* 4.1 URL/ID resolvers                                                    *)
(***************************************************************************)

ModalMarker == <<"m", "o", "d", "a", "l", "_", "i", "d", "=">>
VideoMarker == <<"/", "v", "i", "d", "e", "o", "/">>
Amp == <<"&">>
QMark == <<"?">>

DouyinAPISentinel == <<>>
DouyinProSentinel == <<"u", "n", "k", "n", "o", "w", "n">>
TikTokSentinel ==
    <<"u", "n", "k", "n", "o", "w", "n", "_", "v", "i", "d", "e", "o">>
TikTokAPISentinel == <<>>

\* DouyinAPIScraper._extract_video_id
DouyinAPIScraper_extract_video_id(url) ==
    IF Contains(url, ModalMarker)
    THEN SplitFirst(SplitLast(url, ModalMarker), Amp)
    ELSE IF Contains(url, VideoMarker)
         THEN SplitFirst(SplitLast(url, VideoMarker), QMark)
         ELSE DouyinAPISentinel

\* DouyinScraperPro._extract_video_id
DouyinScraperPro_extract_video_id(url) ==
    IF Contains(url, ModalMarker)
    THEN SplitFirst(SplitLast(url, ModalMarker), Amp)
    ELSE IF Contains(url, VideoMarker)
         THEN SplitFirst(SplitLast(url, VideoMarker), QMark)
         ELSE DouyinProSentinel

\* TikTokScraper._extract_video_id
TikTokScraper_extract_video_id(url) ==
    IF Contains(url, VideoMarker)
    THEN SplitFirst(SplitLast(url, VideoMarker), QMark)
    ELSE TikTokSentinel

\* TikTokAPIScraper._extract_video_id
TikTokAPIScraper_extract_video_id(url) ==
    IF Contains(url, VideoMarker)
    THEN SplitFirst(SplitLast(url, VideoMarker), QMark)
    ELSE TikTokAPISentinel

Resolvers == {"DouyinAPIScraper", "DouyinScraperPro", "TikTokScraper", "TikTokAPIScraper"}

Resolve(class, url) ==
    CASE class = "DouyinAPIScraper" -> DouyinAPIScraper_extract_video_id(url)
      [] class = "DouyinScraperPro" -> DouyinScraperPro_extract_video_id(url)
      [] class = "TikTokScraper" -> TikTokScraper_extract_video_id(url)
      [] class = "TikTokAPIScraper" -> TikTokAPIScraper_extract_video_id(url)

Sentinel(class) ==
    CASE class = "DouyinAPIScraper" -> DouyinAPISentinel
      [] class = "DouyinScraperPro" -> DouyinProSentinel
      [] class = "TikTokScraper" -> TikTokSentinel
      [] class = "TikTokAPIScraper" -> TikTokAPISentinel

\* The URL strings the resolvers are run on: every concatenation of at most
\* MaxUrlPieces pieces.  "/" and "video/" let a marker form across two pieces.
MaxUrlPieces == 3

UrlPieces ==
    { ModalMarker, VideoMarker, Amp, QMark, <<"7">>, <<"8">>, <<"/">>,
      <<"v", "i", "d", "e", "o", "/">> }

RECURSIVE UrlsOf(_)
UrlsOf(n) ==
    IF n = 0 THEN {<<>>}
    ELSE UrlsOf(n - 1) \cup {p \o u : p \in UrlPieces, u \in UrlsOf(n - 1)}

Urls == UrlsOf(MaxUrlPieces)

NotResolved == <<"<not resolved>">>

ResInit ==
    /\ res_url \in Urls
    /\ res_pc = "input"
    /\ res_out = [c \in Resolvers |-> NotResolved]

ResOff ==
    /\ res_url = <<>>
    /\ res_pc = "off"
    /\ res_out = [c \in Resolvers |-> NotResolved]

\* One call of class c's _extract_video_id on the URL.
ExtractVideoId(c) ==
    /\ res_pc = "input"
    /\ res_out[c] = NotResolved
    /\ res_out' = [res_out EXCEPT ![c] = Resolve(c, res_url)]
    /\ UNCHANGED <<res_url, res_pc>>


(***************************************************************************)
(* Raw vendor records and the Douyin normalizer                            *)
(***************************************************************************)

Digits == <<"0", "1", "2", "3", "4", "5", "6", "7", "8", "9">>

\* str(n) of a natural number, as the f-string {idx} formats it.
RECURSIVE Decimal(_)
Decimal(n) ==
    IF n < 10 THEN <<Digits[n + 1]>>
    ELSE Decimal(n \div 10) \o <<Digits[(n % 10) + 1]>>

\* Python truthiness of a str-or-None value: None, a missing key and "" are falsy.
Falsy(x) == x = Absent \/ x = <<>>

\* a or b or ""
OrChain(a, b) == IF ~Falsy(a) THEN a ELSE IF ~Falsy(b) THEN b ELSE <<>>

\* The comment dict _parse_comments appends for the record at 0-based index idx.
\* username, likes, timestamp and user_id are copied values that no condition
\* of the scraper reads; they are left out of the model.
DouyinComment(rec, video_id, idx) ==
    [ comment_id |-> IF rec.cid # Absent THEN rec.cid
                     ELSE video_id \o <<"_">> \o Decimal(idx),
      video_id   |-> video_id,
      text       |-> OrChain(rec.text, rec.comment_text) ]

\* One pass of the loop body of _parse_comments: a record with a falsy text is
\* skipped by `continue`; a record whose user field is not a mapping raises in
\* user_data.get and is skipped by the except clause.
DouyinKeeps(rec) == ~Falsy(OrChain(rec.text, rec.comment_text)) /\ rec.user_ok

\* DouyinAPIScraper._parse_comments, from the 1-based position i on.
RECURSIVE ParseCommentsFrom(_, _, _)
ParseCommentsFrom(comments_list, video_id, i) ==
    IF i > Len(comments_list) THEN <<>>
    ELSE (IF DouyinKeeps(comments_list[i])
          THEN <<DouyinComment(comments_list[i], video_id, i - 1)>>
          ELSE <<>>)
         \o ParseCommentsFrom(comments_list, video_id, i + 1)

_parse_comments(comments_list, video_id) ==
    ParseCommentsFrom(comments_list, video_id, 1)

\* Raw records of the vendor API used as inputs.
RecHi == [text |-> <<"h", "i">>, comment_text |-> Absent, cid |-> <<"c", "1">>, user_ok |-> TRUE]
RecYo == [text |-> <<"y", "o">>, comment_text |-> Absent, cid |-> Absent, user_ok |-> TRUE]
RecFallback == [text |-> Absent, comment_text |-> <<"o", "k">>, cid |-> <<"c", "2">>, user_ok |-> TRUE]
RecEmpty == [text |-> <<>>, comment_text |-> Absent, cid |-> <<"c", "3">>, user_ok |-> TRUE]
RecBlank == [text |-> <<" ">>, comment_text |-> Absent, cid |-> Absent, user_ok |-> TRUE]
RecBadUser == [text |-> <<"h", "i">>, comment_text |-> Absent, cid |-> <<"c", "4">>, user_ok |-> FALSE]

\* The non-empty record lists a status-200 page may carry.
DyPages ==
    { <<RecHi, RecYo>>, <<RecHi>>, <<RecYo>>, <<RecEmpty>>, <<RecBlank>>,
      <<RecFallback, RecBadUser>>, <<RecEmpty, RecYo>>, <<RecHi, RecEmpty, RecYo>> }

CursorC1 == <<"c", "1">>
CursorC2 == <<"c", "2">>
NoCursor == <<>>
Cursors == {NoCursor, CursorC1, CursorC2}

\* A response to one comment-list request.
\*   kind "timeout"    httpx.TimeoutException raised by client.get
\*        "error"      any other exception raised by client.get
\*        "http_error" a status code other than 200
\*        "bad_json"   status 200 whose body response.json() rejects
\*        "json"       status 200 and a JSON object; has_field says whether the
\*                     comment-list key is there, cursor is data.get("cursor", "")
Failure(kind) ==
    [kind |-> kind, has_field |-> FALSE, records |-> <<>>, cursor |-> NoCursor, has_more |-> "absent"]

JsonPage(records, cursor, has_more) ==
    [kind |-> "json", has_field |-> TRUE, records |-> records, cursor |-> cursor, has_more |-> has_more]

FailureResponses ==
    { Failure("timeout"), Failure("error"), Failure("http_error"), Failure("bad_json"),
      [Failure("json") EXCEPT !.cursor = CursorC1],
      JsonPage(<<>>, CursorC1, "absent") }

DyRichResponses ==
    FailureResponses \cup {JsonPage(p, c, "absent") : p \in DyPages, c \in Cursors}

DyPlainResponses == {JsonPage(<<RecHi>>, c, "absent") : c \in {NoCursor, CursorC1}}

\* The cursor of the next request where the pagination starts over.
NextCursorRestart(resp) == <<"0">>

\* cursor = data.get("cursor", ""): the cursor of the next request.
NextCursor(resp) == resp.cursor

\* A response that ends the pagination whatever the scraper's state.
Terminal(resp) == resp.kind # "json" \/ resp.records = <<>> \/ resp.cursor = NoCursor


(***************************************************************************)
(* 4.2 API strategy: DouyinAPIScraper.scrape                               *)
(***************************************************************************)

VARIABLES
    dy_pc,          \* "off" | "init" | "loop" | "alt" | "finish" | "done"
    dy_env,         \* the vendor's behaviour in this run: "rich" | "plain"
    dy_url,         \* video_url
    dy_max,         \* max_comments; 0 stands for None (both are falsy)
    dy_video_id,    \* video_id
    dy_comments,    \* comments, the accumulated list of the main loop
    dy_cursor,      \* cursor
    dy_page_count,  \* page_count
    dy_hist,        \* the main loop's requests so far, each with its response
    dy_alt_idx,     \* _try_alternative_api: the alternative URL tried next (1, 2)
    dy_alt_reqs,    \* requests sent by _try_alternative_api
    dy_result,      \* what scrape returned
    dy_files        \* output files written

dy_vars == <<dy_pc, dy_env, dy_url, dy_max, dy_video_id, dy_comments, dy_cursor,
             dy_page_count, dy_hist, dy_alt_idx, dy_alt_reqs, dy_result, dy_files>>

max_pages == 50

\* The caps tried are 0 (none) .. MaxCap.
MaxCap == 2

\* In a "rich" run the vendor ends the pagination by its MaxRichPages-th page
\* at the latest, and any page content may come; a "plain" run is an endless
\* stream of one-comment pages.
MaxRichPages == 2

UrlModal7 == <<"/">> \o ModalMarker \o <<"7">> \o Amp \o <<"x">>
UrlVideo8 == <<"/">> \o VideoMarker \o <<"8">> \o QMark \o <<"x">>
UrlNoMarker == <<"/", "p", "a", "g", "e">>
ScrapeUrls == {UrlModal7, UrlVideo8, UrlNoMarker}

NoResult == [kind |-> "none", success |-> FALSE, comments |-> <<>>]
InvalidUrlResult == [kind |-> "invalid_url", success |-> FALSE, comments |-> <<>>]

DyInit ==
    /\ dy_pc = "init"
    /\ dy_env \in {"rich", "plain"}
    /\ dy_url \in ScrapeUrls
    /\ dy_max \in 0..MaxCap
    /\ dy_video_id = <<>>
    /\ dy_comments = <<>>
    /\ dy_cursor = <<"0">>
    /\ dy_page_count = 0
    /\ dy_hist = <<>>
    /\ dy_alt_idx = 0
    /\ dy_alt_reqs = 0
    /\ dy_result = NoResult
    /\ dy_files = 0

DyOff ==
    /\ dy_pc = "off"
    /\ dy_env = "plain"
    /\ dy_url = <<>>
    /\ dy_max = 0
    /\ dy_video_id = <<>>
    /\ dy_comments = <<>>
    /\ dy_cursor = <<"0">>
    /\ dy_page_count = 0
    /\ dy_hist = <<>>
    /\ dy_alt_idx = 0
    /\ dy_alt_reqs = 0
    /\ dy_result = NoResult
    /\ dy_files = 0

\* CapReached with > for >=: the loop goes on when the count equals the cap.
CapReachedStrict(max_comments, comments) == max_comments # 0 /\ Len(comments) > max_comments

\* `max_comments and len(comments) >= max_comments`
CapReached(max_comments, comments) == max_comments # 0 /\ Len(comments) >= max_comments

\* scrape, lines 42-62: resolve the id and return at once when it is falsy;
\* otherwise open the client, fetch the cookies and enter the loop.
DyScrapeStart ==
    /\ dy_pc = "init"
    /\ dy_video_id' = DouyinAPIScraper_extract_video_id(dy_url)
    /\ IF dy_video_id' = <<>>
       THEN /\ dy_pc' = "done"
            /\ dy_result' = InvalidUrlResult
       ELSE /\ dy_pc' = "loop"
            /\ UNCHANGED dy_result
    /\ UNCHANGED <<dy_env, dy_url, dy_max, dy_comments, dy_cursor, dy_page_count,
                   dy_hist, dy_alt_idx, dy_alt_reqs, dy_files>>

\* The loop ends at its head: the while condition fails or the cap is reached.
DyLoopEnds(page_count, max_comments, comments) ==
    page_count >= max_pages \/ CapReached(max_comments, comments)

DyLoopExit ==
    /\ dy_pc = "loop"
    /\ DyLoopEnds(dy_page_count, dy_max, dy_comments)
    /\ dy_pc' = "finish"
    /\ UNCHANGED <<dy_env, dy_url, dy_max, dy_video_id, dy_comments, dy_cursor,
                   dy_page_count, dy_hist, dy_alt_idx, dy_alt_reqs, dy_result, dy_files>>

\* The responses the vendor may give to the n-th request of the main loop.
DyResponsesAt(env, n) ==
    IF env = "plain" THEN DyPlainResponses
    ELSE IF n < MaxRichPages THEN DyRichResponses
    ELSE {r \in DyRichResponses : Terminal(r)}

\* comments.extend(new_comments)
Extend(comments, new_comments) == comments \o new_comments

\* AfterPage without the break of line 130: the empty cursor is sent on.
AfterPageNoBreak(cursor) == "loop"

\* Where the loop body goes after a status-200 JSON page with records:
\* break on an empty next cursor, else page_count += 1 and loop on.
AfterPage(cursor) == IF Falsy(cursor) THEN "finish" ELSE "loop"

\* The alternate endpoints tried after a non-200 status on any page.
TriesAlternativeOnAnyPage(page_count) == TRUE

\* if page_count == 0, line 97: the alternate endpoints are tried.
TriesAlternative(page_count) == page_count = 0

\* One pass of the loop body, lines 69-148: one comment-list request and the
\* processing of its response.
DyRequest(resp) ==
    /\ dy_pc = "loop"
    /\ ~DyLoopEnds(dy_page_count, dy_max, dy_comments)
    /\ dy_hist' = Append(dy_hist, [sent_cursor |-> dy_cursor,
                                   before |-> Len(dy_comments),
                                   resp |-> resp])
    /\ CASE resp.kind \in {"timeout", "error", "bad_json"} ->
              /\ dy_pc' = "finish"
              /\ UNCHANGED <<dy_comments, dy_cursor, dy_page_count, dy_alt_idx>>
         [] resp.kind = "http_error" ->
              /\ IF TriesAlternative(dy_page_count)
                 THEN dy_pc' = "alt" /\ dy_alt_idx' = 1
                 ELSE dy_pc' = "finish" /\ UNCHANGED dy_alt_idx
              /\ UNCHANGED <<dy_comments, dy_cursor, dy_page_count>>
         [] resp.kind = "json" /\ (~resp.has_field \/ resp.records = <<>>) ->
              /\ dy_pc' = "finish"
              /\ UNCHANGED <<dy_comments, dy_cursor, dy_page_count, dy_alt_idx>>
         [] resp.kind = "json" /\ resp.has_field /\ resp.records # <<>> ->
              /\ dy_comments' = Extend(dy_comments, _parse_comments(resp.records, dy_video_id))
              /\ dy_cursor' = NextCursor(resp)
              /\ dy_pc' = AfterPage(resp.cursor)
              /\ dy_page_count' = IF AfterPage(resp.cursor) = "loop"
                                  THEN dy_page_count + 1 ELSE dy_page_count
              /\ UNCHANGED dy_alt_idx
    /\ UNCHANGED <<dy_env, dy_url, dy_max, dy_video_id, dy_alt_reqs, dy_result, dy_files>>

\* A response of an alternative endpoint: an exception (or a body that is no
\* JSON), a status other than 200, or a JSON object in which the if/elif chain
\* of lines 237-244 finds a comment list (found) or not.
AltResponses ==
    { [kind |-> "error", found |-> FALSE, records |-> <<>>],
      [kind |-> "http_error", found |-> FALSE, records |-> <<>>],
      [kind |-> "json", found |-> FALSE, records |-> <<>>],
      [kind |-> "json", found |-> TRUE, records |-> <<>>] }
    \cup {[kind |-> "json", found |-> TRUE, records |-> p] :
             p \in {<<RecHi>>, <<RecEmpty>>, <<RecHi, RecYo>>, <<RecHi, RecEmpty, RecYo>>}}

AltResult(comments) == [kind |-> "alt", success |-> TRUE, comments |-> comments]

\* _try_alternative_api, one pass of its for loop (one request), followed, when
\* the loop ends, by lines 256-265 and by lines 102-105 of scrape: a non-empty
\* list is returned as the result of scrape, anything else breaks the main loop.
DyAltAttempt(resp) ==
    /\ dy_pc = "alt"
    /\ dy_alt_reqs' = dy_alt_reqs + 1
    /\ IF resp.kind = "json" /\ resp.found /\ resp.records # <<>>
       THEN \* parsed, extended, break
            IF _parse_comments(resp.records, dy_video_id) # <<>>
            THEN /\ dy_pc' = "done"
                 /\ dy_result' = AltResult(_parse_comments(resp.records, dy_video_id))
                 /\ UNCHANGED dy_alt_idx
            ELSE /\ dy_pc' = "finish"
                 /\ UNCHANGED <<dy_result, dy_alt_idx>>
       ELSE \* continue, or fall through to the next URL
            IF dy_alt_idx < 2
            THEN /\ dy_alt_idx' = dy_alt_idx + 1
                 /\ UNCHANGED <<dy_pc, dy_result>>
            ELSE /\ dy_pc' = "finish"
                 /\ UNCHANGED <<dy_result, dy_alt_idx>>
    /\ UNCHANGED <<dy_env, dy_url, dy_max, dy_video_id, dy_comments, dy_cursor,
                   dy_page_count, dy_hist, dy_files>>

\* The result where the accumulated comments are dropped.
ScrapeResultDropsComments(comments) ==
    [kind |-> "result", success |-> FALSE, comments |-> <<>>]

\* The dict of lines 157-166.
ScrapeResult(comments) ==
    [kind |-> "result", success |-> Len(comments) > 0, comments |-> comments]

\* Lines 156-177: build the result, write the output file, return.
DyFinish ==
    /\ dy_pc = "finish"
    /\ dy_result' = ScrapeResult(dy_comments)
    /\ dy_files' = dy_files + 1
    /\ dy_pc' = "done"
    /\ UNCHANGED <<dy_env, dy_url, dy_max, dy_video_id, dy_comments, dy_cursor,
                   dy_page_count, dy_hist, dy_alt_idx, dy_alt_reqs>>


(***************************************************************************)
(* 4.2 API strategy: TikTokAPIScraper.scrape_video_comments                *)
(***************************************************************************)

VARIABLES
    tk_pc,          \* "off" | "init" | "loop" | "done"
    tk_env,         \* the vendor's behaviour in this run: "rich" | "plain"
    tk_url,         \* video_url
    tk_max,         \* max_comments; 0 stands for None
    tk_video_id,    \* video_id
    tk_comments,    \* comments
    tk_cursor,      \* cursor
    tk_hist,        \* the requests so far, each with its response
    tk_result       \* the list returned, or NotReturned

tk_vars == <<tk_pc, tk_env, tk_url, tk_max, tk_video_id, tk_comments, tk_cursor,
             tk_hist, tk_result>>

\* The model follows a run for at most this many requests.
MaxTkRequests == 51

NotReturned == <<"<not returned>">>

\* Raw records: ok is FALSE for a record on which _parse_comment raises (a
\* user field that is no mapping, a value pydantic rejects).
TkHi == [cid |-> <<"c", "1">>, text |-> <<"h", "i">>, ok |-> TRUE]
TkNoCid == [cid |-> Absent, text |-> <<"y", "o">>, ok |-> TRUE]
TkNoText == [cid |-> <<"c", "2">>, text |-> Absent, ok |-> TRUE]
TkBad == [cid |-> <<"c", "3">>, text |-> <<"h", "i">>, ok |-> FALSE]

TkPages ==
    { <<TkHi>>, <<TkNoCid>>, <<TkNoText>>, <<TkHi, TkNoCid>>, <<TkNoCid, TkNoCid>>,
      <<TkHi, TkBad, TkNoCid>>, <<TkBad>> }

\* dict.get(key, default)
GetOr(value, default) == IF value = Absent THEN default ELSE value

\* TikTokAPIScraper._parse_comment on a record it accepts.
_parse_comment(data, video_id) ==
    [ comment_id |-> GetOr(data.cid, <<>>),
      video_id   |-> video_id,
      text       |-> GetOr(data.text, <<>>) ]

\* The for loop of lines 315-317: each record is parsed and appended in turn;
\* the first record that raises ends the loop with what was appended before.
RECURSIVE TkParsePage(_, _, _)
TkParsePage(records, video_id, i) ==
    IF i > Len(records) \/ ~records[i].ok THEN <<>>
    ELSE <<_parse_comment(records[i], video_id)>> \o TkParsePage(records, video_id, i + 1)

TkPageRaises(records) == \E i \in 1..Len(records) : ~records[i].ok

HasMoreValues == {"true", "false", "absent"}

TkRichResponses ==
    FailureResponses
    \cup {JsonPage(p, c, h) : p \in TkPages, c \in Cursors, h \in HasMoreValues}

TkPlainResponses == {JsonPage(<<TkHi>>, CursorC1, "true")}

\* `not cursor or data.get("has_more", False) is False`
TkLastPage(cursor, has_more) == Falsy(cursor) \/ has_more \in {"false", "absent"}

TkTerminal(resp) ==
    \/ resp.kind # "json"
    \/ resp.records = <<>>
    \/ TkPageRaises(resp.records)
    \/ TkLastPage(resp.cursor, resp.has_more)

TkResponsesAt(env, n) ==
    IF env = "plain" THEN TkPlainResponses
    ELSE IF n < MaxRichPages THEN TkRichResponses
    ELSE {r \in TkRichResponses : TkTerminal(r)}

TkInit ==
    /\ tk_pc = "init"
    /\ tk_env \in {"rich", "plain"}
    /\ tk_url \in ScrapeUrls
    /\ tk_max \in 0..MaxCap
    /\ tk_video_id = <<>>
    /\ tk_comments = <<>>
    /\ tk_cursor = <<"0">>
    /\ tk_hist = <<>>
    /\ tk_result = NotReturned

TkOff ==
    /\ tk_pc = "off"
    /\ tk_env = "plain"
    /\ tk_url = <<>>
    /\ tk_max = 0
    /\ tk_video_id = <<>>
    /\ tk_comments = <<>>
    /\ tk_cursor = <<"0">>
    /\ tk_hist = <<>>
    /\ tk_result = NotReturned

\* Lines 281-287: resolve the id (whatever it is) and open the client.
TkScrapeStart ==
    /\ tk_pc = "init"
    /\ tk_video_id' = TikTokAPIScraper_extract_video_id(tk_url)
    /\ tk_pc' = "loop"
    /\ UNCHANGED <<tk_env, tk_url, tk_max, tk_comments, tk_cursor, tk_hist, tk_result>>

\* Lines 290-291 and 329: the cap is reached at the head of the loop.
TkLoopExit ==
    /\ tk_pc = "loop"
    /\ CapReached(tk_max, tk_comments)
    /\ tk_pc' = "done"
    /\ tk_result' = tk_comments
    /\ UNCHANGED <<tk_env, tk_url, tk_max, tk_video_id, tk_comments, tk_cursor, tk_hist>>

\* One pass of the loop body, lines 293-327, and the return of line 329 when
\* the pass breaks.
TkRequest(resp) ==
    /\ tk_pc = "loop"
    /\ ~CapReached(tk_max, tk_comments)
    /\ Len(tk_hist) < MaxTkRequests
    /\ tk_hist' = Append(tk_hist, [sent_cursor |-> tk_cursor,
                                   before |-> Len(tk_comments),
                                   resp |-> resp])
    /\ IF resp.kind # "json" \/ ~resp.has_field \/ resp.records = <<>>
       THEN /\ tk_pc' = "done"
            /\ tk_result' = tk_comments
            /\ UNCHANGED <<tk_comments, tk_cursor>>
       ELSE /\ tk_comments' = tk_comments \o TkParsePage(resp.records, tk_video_id, 1)
            /\ IF TkPageRaises(resp.records)
               THEN /\ tk_pc' = "done"
                    /\ tk_result' = tk_comments'
                    /\ UNCHANGED tk_cursor
               ELSE /\ tk_cursor' = NextCursor(resp)
                    /\ IF TkLastPage(resp.cursor, resp.has_more)
                       THEN tk_pc' = "done" /\ tk_result' = tk_comments'
                       ELSE tk_pc' = "loop" /\ UNCHANGED tk_result
    /\ UNCHANGED <<tk_env, tk_url, tk_max, tk_video_id>>

(***************************************************************************)
(* 4.3 / 4.5 Rendered-page strategy and deduplicator: DouyinScraperPro     *)
(***************************************************************************)

VARIABLES
    pro_pc,                 \* "off" | "init" | "loop" | "finish" | "done" | "raised"
    pro_env,                \* the page: "rich" renders any of ProBatches in a
                            \* round, "plain" renders one new comment per round
    pro_url,                \* video_url
    pro_max,                \* max_comments; 0 stands for None
    pro_hash,               \* hash(): this process's str hash, text -> value
    pro_comments,           \* self.comments
    pro_seen_hashes,        \* self.seen_hashes
    pro_scroll_attempts,    \* scroll_attempts
    pro_consecutive_empty,  \* consecutive_empty
    pro_navigations,        \* page.goto calls issued
    pro_seen_texts,         \* the distinct non-empty trimmed texts processed so
                            \* far, in the order they first came
    pro_last,               \* history: what the last round's extraction met
    pro_result,             \* what scrape returned
    pro_files               \* output files written

pro_vars == <<pro_pc, pro_env, pro_last, pro_url, pro_max, pro_hash, pro_comments, pro_seen_hashes,
              pro_scroll_attempts, pro_consecutive_empty, pro_navigations,
              pro_seen_texts, pro_result, pro_files>>

max_scrolls == 100
max_consecutive_empty == 5
min_text_len == 2

TextAB == <<"a", "b">>
TextBA == <<"b", "a">>
\* A text value that is no str (None): text.strip() raises on it.
Poison == <<"<not a str>">>

\* What page.evaluate may return in one round: lists of records, each given by
\* its text value.
ProBatches ==
    { <<>>, <<TextAB>>, <<TextBA>>, <<TextAB, TextAB>>, <<TextAB, TextBA>>,
      <<TextBA, <<" ", "a", "b", " ">> >>, << <<"a">>, TextAB>>, << <<" ">> >>,
      <<Absent>>, <<Poison, TextAB>>, <<TextAB, Poison, TextBA>> }

\* The texts hash() is applied to, and the values it may take.  Python's str
\* hash is fixed within a process and is not injective.
HashedTexts == {TextAB, TextBA}
HashValues == {<<"h1">>, <<"h2">>}

\* hash(text): the value pro_hash gives, and for a text outside HashedTexts a
\* value of its own.
HashOf(hash, text) == IF text \in DOMAIN hash THEN hash[text] ELSE text

\* The comment a plain page adds in round n, and what it renders then.
FreshText(n) == <<"t">> \o Decimal(n)
ProBatchesAt(env, n) == IF env = "rich" THEN ProBatches ELSE {<<FreshText(n)>>}

NoRound == [evaluated |-> TRUE, batch |-> <<>>, round |-> 0]

\* comment_data.get("text", "").strip()
ProText(raw) == Strip(GetOr(raw, <<>>))

\* `not text or len(text) < 2`
TooShort(text) == text = <<>> \/ Len(text) < min_text_len

\* AlreadySeen without the membership test: nothing counts as seen.
AlreadySeenNever(text_hash, seen_hashes) == FALSE

\* `text_hash in self.seen_hashes`
AlreadySeen(text_hash, seen_hashes) == text_hash \in seen_hashes

\* The for loop of lines 333-352 from position i on, with the except clause
\* of line 354: the list of new comments and the updated seen_hashes.  A
\* record whose text is no str raises and ends the loop; what was appended
\* before stays.
RECURSIVE ExtractFrom(_, _, _, _, _)
ExtractFrom(batch, i, hash, seen_hashes, new_comments) ==
    IF i > Len(batch) \/ batch[i] = Poison
    THEN [new_comments |-> new_comments, seen_hashes |-> seen_hashes]
    ELSE IF TooShort(ProText(batch[i])) \/ AlreadySeen(HashOf(hash, ProText(batch[i])), seen_hashes)
         THEN ExtractFrom(batch, i + 1, hash, seen_hashes, new_comments)
         ELSE ExtractFrom(batch, i + 1, hash,
                          seen_hashes \cup {HashOf(hash, ProText(batch[i]))},
                          Append(new_comments, [text |-> ProText(batch[i])]))

\* DouyinScraperPro._extract_comments_advanced on what page.evaluate returned.
_extract_comments_advanced(batch, hash, seen_hashes) ==
    ExtractFrom(batch, 1, hash, seen_hashes, <<>>)

\* The texts of a batch that the loop gets to, trimmed, empty ones left out.
RECURSIVE ProcessedTexts(_, _)
ProcessedTexts(batch, i) ==
    IF i > Len(batch) \/ batch[i] = Poison THEN <<>>
    ELSE (IF ProText(batch[i]) = <<>> THEN <<>> ELSE <<ProText(batch[i])>>)
         \o ProcessedTexts(batch, i + 1)

Range(seq) == {seq[i] : i \in 1..Len(seq)}

\* seq followed by the elements of more that are new to it, each once.
RECURSIVE AddNew(_, _)
AddNew(seq, more) ==
    IF more = <<>> THEN seq
    ELSE AddNew(IF Head(more) \in Range(seq) THEN seq ELSE Append(seq, Head(more)),
                Tail(more))

ProInit ==
    /\ pro_pc = "init"
    /\ pro_env \in {"rich", "plain"}
    /\ pro_last = NoRound
    /\ pro_url \in {UrlModal7, UrlNoMarker}
    /\ pro_max \in 0..MaxCap
    /\ pro_hash \in [HashedTexts -> HashValues]
    /\ pro_comments = <<>>
    /\ pro_seen_hashes = {}
    /\ pro_scroll_attempts = 0
    /\ pro_consecutive_empty = 0
    /\ pro_navigations = 0
    /\ pro_seen_texts = <<>>
    /\ pro_result = NoResult
    /\ pro_files = 0

ProOff ==
    /\ pro_pc = "off"
    /\ pro_env = "plain"
    /\ pro_last = NoRound
    /\ pro_url = <<>>
    /\ pro_max = 0
    /\ pro_hash = [t \in HashedTexts |-> <<"h1">>]
    /\ pro_comments = <<>>
    /\ pro_seen_hashes = {}
    /\ pro_scroll_attempts = 0
    /\ pro_consecutive_empty = 0
    /\ pro_navigations = 0
    /\ pro_seen_texts = <<>>
    /\ pro_result = NoResult
    /\ pro_files = 0

\* scrape, lines 56-151: the id is only printed; the browser is launched and
\* the page is loaded.  A failed launch propagates; a failed page.goto is
\* caught (line 139) and the run goes on.
ProScrapeStart(outcome) ==
    /\ pro_pc = "init"
    /\ IF outcome = "launch_error"
       THEN pro_pc' = "raised" /\ UNCHANGED pro_navigations
       ELSE pro_pc' = "loop" /\ pro_navigations' = pro_navigations + 1
    /\ pro_scroll_attempts' = 0
    /\ pro_consecutive_empty' = 0
    /\ UNCHANGED <<pro_env, pro_last, pro_url, pro_max, pro_hash, pro_comments,
                   pro_seen_hashes, pro_seen_texts, pro_result, pro_files>>

\* The loop condition without the ceiling of line 155.
ProLoopEndsNoCeiling(scroll_attempts, max_comments, comments) ==
    CapReached(max_comments, comments)

\* The loop is left at line 155 (ceiling) or at line 158 (cap).
ProLoopEnds(scroll_attempts, max_comments, comments) ==
    scroll_attempts >= max_scrolls \/ CapReached(max_comments, comments)

ProLoopExit ==
    /\ pro_pc = "loop"
    /\ ProLoopEnds(pro_scroll_attempts, pro_max, pro_comments)
    /\ pro_pc' = "finish"
    /\ UNCHANGED <<pro_env, pro_last, pro_url, pro_max, pro_hash, pro_comments,
                   pro_seen_hashes, pro_scroll_attempts, pro_consecutive_empty,
                   pro_navigations, pro_seen_texts, pro_result, pro_files>>

\* One round, lines 160-180.  evaluated is FALSE when page.evaluate raised:
\* the extraction then returns no comment.
ProRound(evaluated, batch) ==
    /\ pro_pc = "loop"
    /\ ~ProLoopEnds(pro_scroll_attempts, pro_max, pro_comments)
    /\ LET got == IF evaluated
                  THEN _extract_comments_advanced(batch, pro_hash, pro_seen_hashes)
                  ELSE [new_comments |-> <<>>, seen_hashes |-> pro_seen_hashes]
       IN /\ pro_seen_hashes' = got.seen_hashes
          /\ pro_seen_texts' = IF evaluated
                               THEN AddNew(pro_seen_texts, ProcessedTexts(batch, 1))
                               ELSE pro_seen_texts
          /\ IF got.new_comments # <<>>
             THEN /\ pro_comments' = Extend(pro_comments, got.new_comments)
                  /\ pro_consecutive_empty' = 0
                  /\ pro_scroll_attempts' = pro_scroll_attempts + 1
                  /\ pro_pc' = "loop"
             ELSE /\ pro_consecutive_empty' = pro_consecutive_empty + 1
                  /\ UNCHANGED pro_comments
                  /\ IF pro_consecutive_empty' >= max_consecutive_empty
                     THEN pro_pc' = "finish" /\ UNCHANGED pro_scroll_attempts
                     ELSE pro_pc' = "loop" /\ pro_scroll_attempts' = pro_scroll_attempts + 1
    /\ pro_last' = [evaluated |-> evaluated, batch |-> batch,
                     round |-> pro_scroll_attempts + 1]
    /\ UNCHANGED <<pro_env, pro_url, pro_max, pro_hash, pro_navigations, pro_result,
                   pro_files>>

\* Lines 182-207: close the browser, build the result, write the file, return.
ProFinish ==
    /\ pro_pc = "finish"
    /\ pro_result' = ScrapeResult(pro_comments)
    /\ pro_files' = pro_files + 1
    /\ pro_pc' = "done"
    /\ UNCHANGED <<pro_env, pro_last, pro_url, pro_max, pro_hash, pro_comments,
                   pro_seen_hashes, pro_scroll_attempts, pro_consecutive_empty,
                   pro_navigations, pro_seen_texts>>

\* How many times scrape is called on one DouyinScraperPro instance.
MaxProCalls == 2

\* The caller calls scrape again on the same instance once a call has
\* returned.  The instance keeps its fields: self.comments and
\* self.seen_hashes are assigned in __init__ (lines 39-40) and nowhere else;
\* scroll_attempts and consecutive_empty are locals that ProScrapeStart sets.
ProScrapeAgain ==
    /\ pro_pc = "done"
    /\ pro_files < MaxProCalls
    /\ pro_pc' = "init"
    /\ pro_last' = NoRound
    /\ UNCHANGED <<pro_env, pro_url, pro_max, pro_hash, pro_comments,
                   pro_seen_hashes, pro_scroll_attempts, pro_consecutive_empty,
                   pro_navigations, pro_seen_texts, pro_result, pro_files>>


(***************************************************************************)
(* 4.6 Sentiment adapter: LLMClient._parse_sentiment_response              *)
(***************************************************************************)

VARIABLES
    llm_content,    \* the content the LLM answers with
    llm_pc,         \* "off" | "input"
    llm_results     \* form -> the result of parsing the content given in that
                    \* form, or NotParsed

llm_vars == <<llm_content, llm_pc, llm_results>>

SummaryLimit == 200

\* The grave accent, written "^" here.
Backtick == "^"
Fence == <<Backtick, Backtick, Backtick>>
FenceJson == Fence \o <<"j", "s", "o", "n">>
Newline == <<"\n">>

\* JSON documents.  In "{p}" and "{q}" the letter stands for the members of
\* the object: p holds "sentiment": "positive", q holds "sentiment": "angry";
\* "{}" has no sentiment key; "7" is a JSON value that is no object.
DocPositive == <<"{", "p", "}">>
DocUnknown == <<"{", "q", "}">>
DocNoKey == <<"{", "}">>
DocNumber == <<"7">>
JsonDocs == {DocPositive, DocUnknown, DocNoKey, DocNumber}
JsonObjects == {DocPositive, DocUnknown, DocNoKey}

\* json.loads accepts a document with whitespace around it and nothing else.
JsonValid(text) == Strip(text) \in JsonDocs

\* data.get("sentiment", "neutral")
SentimentField(doc) ==
    CASE doc = DocPositive -> "positive"
      [] doc = DocUnknown -> "angry"
      [] doc = DocNoKey -> "neutral"

SentimentLabels == {"positive", "negative", "neutral", "suggestion", "question"}

\* sentiment_map.get(label): the enum member, or None.
sentiment_map(label) == IF label \in SentimentLabels THEN label ELSE "None"

\* Unfence without lines 195-198: the text is stripped and no fence is cut.
UnfenceStripOnly(response_text) == Strip(response_text)

\* The text once the fence is cut off, lines 194-198.
Unfence(response_text) ==
    IF StartsWith(Strip(response_text), FenceJson)
    THEN Slice(Strip(response_text), 7, 3)
    ELSE IF StartsWith(Strip(response_text), Fence)
         THEN Slice(Strip(response_text), 3, 3)
         ELSE Strip(response_text)

\* The dict returned by the except clause, with its summary.
FallbackResult(summary) ==
    [ kind |-> "fallback", sentiment |-> "neutral", confidence |-> "0.0",
      key_points |-> <<>>, summary |-> summary, error |-> TRUE, data |-> <<>> ]

\* The dict returned on success: the parsed object (data) with its sentiment
\* replaced.
ParsedResult(doc) ==
    [ kind |-> "parsed", sentiment |-> sentiment_map(SentimentField(doc)),
      confidence |-> "data", key_points |-> <<>>, summary |-> <<>>,
      error |-> FALSE, data |-> doc ]

\* data.get raised AttributeError: the document is no object.
RaisedResult ==
    [ kind |-> "raised", sentiment |-> "None", confidence |-> "None",
      key_points |-> <<>>, summary |-> <<>>, error |-> TRUE, data |-> <<>> ]

SummaryOf(text) == Take(text, SummaryLimit)

\* LLMClient._parse_sentiment_response
_parse_sentiment_response(response_text) ==
    IF JsonValid(Unfence(response_text))
    THEN IF Strip(Unfence(response_text)) \in JsonObjects
         THEN ParsedResult(Strip(Unfence(response_text)))
         ELSE RaisedResult
    ELSE FallbackResult(SummaryOf(Unfence(response_text)))

\* A text one character longer than the summary may be.
LongText == [i \in 1..(SummaryLimit + 1) |-> "x"]

LLMContents ==
    JsonDocs \cup { <<>>, <<"x">>, <<"x", " ", "x">>, <<"{", "p">>,
                    <<"j", "s", "o", "n">> \o DocPositive, LongText }

\* The ways a content is given.
Forms ==
    { "bare", "bare_padded", "json_fence", "json_fence_tight", "json_fence_padded",
      "plain_fence", "plain_fence_tight", "json_fence_unclosed" }

Wrap(form, content) ==
    CASE form = "bare" -> content
      [] form = "bare_padded" -> Newline \o content \o <<" ">>
      [] form = "json_fence" -> FenceJson \o Newline \o content \o Newline \o Fence
      [] form = "json_fence_tight" -> FenceJson \o content \o Fence
      [] form = "json_fence_padded" ->
            <<" ">> \o FenceJson \o Newline \o content \o Newline \o Fence \o Newline
      [] form = "plain_fence" -> Fence \o Newline \o content \o Newline \o Fence
      [] form = "plain_fence_tight" -> Fence \o content \o Fence
      [] form = "json_fence_unclosed" -> FenceJson \o Newline \o content

NotParsed == [kind |-> "none"]

LlmInit ==
    /\ llm_content \in LLMContents
    /\ llm_pc = "input"
    /\ llm_results = [f \in Forms |-> NotParsed]

LlmOff ==
    /\ llm_content = <<>>
    /\ llm_pc = "off"
    /\ llm_results = [f \in Forms |-> NotParsed]

\* One call of _parse_sentiment_response on the content given in form f.
ParseResponse(f) ==
    /\ llm_pc = "input"
    /\ llm_results[f] = NotParsed
    /\ llm_results' = [llm_results EXCEPT ![f] = _parse_sentiment_response(Wrap(f, llm_content))]
    /\ UNCHANGED <<llm_content, llm_pc>>

(***************************************************************************)
(* 4.7 LLMClient.analyze_sentiment under its retry decorator, and          *)
(*     LLMClient.batch_analyze                                             *)
(***************************************************************************)

VARIABLES
    ba_pc,              \* "off" | "called" | "loop" | "returned"
    ba_timeout_is_conn, \* whether the SDK's APITimeoutError is a subclass of
                        \* its APIConnectionError (the SDK is third-party)
    ba_comments,        \* the comments argument: a sequence of comment ids
    ba_batch_size,      \* the batch_size argument; 0 stands for None
    ba_i,               \* i of the outer loop
    ba_k,               \* 0-based position of the inner loop in the batch
    ba_responses,       \* the answers to the requests of the call in progress
    ba_calls,           \* history: one record per finished analyze_sentiment call
    ba_results          \* results

ba_vars == <<ba_pc, ba_timeout_is_conn, ba_comments, ba_batch_size, ba_i, ba_k,
             ba_responses, ba_calls, ba_results>>

BATCH_SIZE == 50
stop_after_attempt == 3
MaxBatchComments == 3

\* What chat.completions.create does on one request: it answers with a
\* content or raises.
LlmOk(content) == [kind |-> "ok", content |-> content]
LlmRaises(kind) == [kind |-> kind, content |-> <<>>]
LlmErrorKinds == {"timeout", "connection", "status", "other"}
LlmResponses ==
    {LlmOk(DocPositive), LlmOk(DocNumber)} \cup {LlmRaises(k) : k \in LlmErrorKinds}

\* The except clause of line 87 catches the exception create raised.
CaughtAt87(kind, timeout_is_conn) ==
    \/ kind \in {"status", "connection"}
    \/ kind = "timeout" /\ timeout_is_conn

\* The exception that leaves the body of analyze_sentiment on one attempt,
\* "none" when the body returns.
BodyRaises(resp, timeout_is_conn) ==
    IF resp.kind = "ok"
    THEN IF _parse_sentiment_response(resp.content) = RaisedResult
         THEN "AttributeError"
         ELSE "none"
    ELSE IF CaughtAt87(resp.kind, timeout_is_conn)
         THEN "RuntimeError"
         ELSE IF resp.kind = "timeout" THEN "APITimeoutError" ELSE "ValueError"

\* retry_if_exception_type((APIConnectionError, APITimeoutError)) where every
\* exception is retried, not only the two classes.
RetryTypeAny(exc) == exc # "none"

\* retry_if_exception_type((APIConnectionError, APITimeoutError)), line 57.
RetryType(exc) == exc \in {"APIConnectionError", "APITimeoutError"}

\* The decorator's decision after an attempt: "retry", "return", or the
\* exception the call raises (RetryError once the attempts are used up).
RetryDecision(exc, attempt) ==
    IF exc = "none"
    THEN "return"
    ELSE IF RetryType(exc)
         THEN IF attempt >= stop_after_attempt THEN "RetryError" ELSE "retry"
         ELSE exc

\* The dict appended by the except clause of batch_analyze.
DegradedResult(comment_id, exc) ==
    [ kind |-> "degraded", comment_id |-> comment_id, sentiment |-> "neutral",
      confidence |-> "0.0", error |-> exc ]

\* The slot batch_analyze appends for a call that ended with decision d on
\* the answer resp.
SlotOf(comment_id, resp, d) ==
    IF d = "return"
    THEN _parse_sentiment_response(resp.content)
    ELSE DegradedResult(comment_id, d)

\* batch_size or settings.BATCH_SIZE
BatchSizeOr(batch_size) == IF batch_size = 0 THEN BATCH_SIZE ELSE batch_size

Min(a, b) == IF a <= b THEN a ELSE b

\* comments[i : i + batch_size]
BatchAt(comments, i, batch_size) ==
    SubSeq(comments, i + 1, Min(i + batch_size, Len(comments)))

\* results.append where nothing is appended once a call has failed.
AppendSlotStopOnError(results, slot) ==
    IF Len(results) > 0 /\ results[Len(results)].kind = "degraded"
    THEN results
    ELSE Append(results, slot)

\* results.append, lines 149 and 151.
AppendSlot(results, slot) == Append(results, slot)

BatchSizes == 0..2

BaInit ==
    /\ ba_pc = "called"
    /\ ba_timeout_is_conn \in BOOLEAN
    /\ ba_comments \in {[j \in 1..n |-> j] : n \in 0..MaxBatchComments}
    /\ ba_batch_size \in BatchSizes
    /\ ba_i = 0
    /\ ba_k = 0
    /\ ba_responses = <<>>
    /\ ba_calls = <<>>
    /\ ba_results = <<>>

BaOff ==
    /\ ba_pc = "off"
    /\ ba_timeout_is_conn = FALSE
    /\ ba_comments = <<>>
    /\ ba_batch_size = 0
    /\ ba_i = 0
    /\ ba_k = 0
    /\ ba_responses = <<>>
    /\ ba_calls = <<>>
    /\ ba_results = <<>>

\* batch_analyze is called: lines 141-144 up to the first comment.
BatchAnalyzeStart ==
    /\ ba_pc = "called"
    /\ ba_pc' = IF Len(ba_comments) = 0 THEN "returned" ELSE "loop"
    /\ UNCHANGED <<ba_timeout_is_conn, ba_comments, ba_batch_size, ba_i, ba_k,
                   ba_responses, ba_calls, ba_results>>

\* One request of the analyze_sentiment call on the current comment: the
\* body runs, the decorator decides, and when the call is over batch_analyze
\* appends its slot and moves to the next comment.
AnalyzeRequest(resp) ==
    /\ ba_pc = "loop"
    /\ LET bs == BatchSizeOr(ba_batch_size)
           batch == BatchAt(ba_comments, ba_i, bs)
           comment_id == batch[ba_k + 1]
           responses == Append(ba_responses, resp)
           d == RetryDecision(BodyRaises(resp, ba_timeout_is_conn), Len(responses))
       IN IF d = "retry"
          THEN /\ ba_responses' = responses
               /\ UNCHANGED <<ba_pc, ba_i, ba_k, ba_calls, ba_results>>
          ELSE /\ ba_responses' = <<>>
               /\ ba_calls' = Append(ba_calls,
                     [comment_id |-> comment_id, responses |-> responses, outcome |-> d])
               /\ ba_results' = AppendSlot(ba_results, SlotOf(comment_id, resp, d))
               /\ IF ba_k + 1 < Len(batch)
                  THEN /\ ba_k' = ba_k + 1
                       /\ UNCHANGED <<ba_pc, ba_i>>
                  ELSE /\ ba_k' = 0
                       /\ ba_i' = ba_i + bs
                       /\ ba_pc' = IF ba_i + bs < Len(ba_comments)
                                   THEN "loop" ELSE "returned"
    /\ UNCHANGED <<ba_timeout_is_conn, ba_comments, ba_batch_size>>


(***************************************************************************)
(* 4.8 Package CLI: cli.main driving scrape_and_analyze                    *)
(***************************************************************************)

VARIABLES
    cli_pc,        \* "off" | "start" | "analyzing" | "exited"
    cli_comments,  \* the comments the scraper returned: a sequence of ids
    cli_error,     \* the exception that left scrape_and_analyze, or "none"
    cli_returned,  \* scrape_and_analyze returned its VideoSummary
    cli_artifact,  \* the comments of the summary file written, or Absent
    cli_files,     \* number of files written
    cli_exit       \* exit code of the process once cli_pc = "exited"

cli_vars == <<cli_pc, cli_comments, cli_error, cli_returned, cli_artifact,
              cli_files, cli_exit>>

\* What the scraper of lines 38-43 does: it returns n comments or raises.
ScrapeReturns(n) == [kind |-> "returned", comments |-> [j \in 1..n |-> j]]
ScrapeRaises == [kind |-> "raised", comments |-> <<>>]
ScrapeOutcomes == {ScrapeReturns(n) : n \in 0..MaxBatchComments} \cup {ScrapeRaises}

\* The exception that leaves summarize_comments, "none" when it returns the
\* content (lines 110-127).
SummarizeRaises(resp, timeout_is_conn) ==
    IF resp.kind = "ok"
    THEN "none"
    ELSE IF CaughtAt87(resp.kind, timeout_is_conn)
         THEN "RuntimeError"
         ELSE IF resp.kind = "timeout" THEN "APITimeoutError" ELSE "ValueError"

\* calculate_sentiment_distribution where a result is read as a dict.
DistributionRaisesNever(analysis_results) == "none"

\* VideoSummary.calculate_sentiment_distribution: the exception it raises or
\* "none".  analysis_results holds the dicts batch_analyze returned (the
\* assignment of cli.py:55 is not validated), and result.sentiment on a dict
\* raises AttributeError.
DistributionRaises(analysis_results) ==
    IF Len(analysis_results) > 0 THEN "AttributeError" ELSE "none"

\* The first exception of lines 59-62, or "none".
FirstError(e1, e2) == IF e1 # "none" THEN e1 ELSE e2

CliInit ==
    /\ cli_pc = "start"
    /\ cli_comments = <<>>
    /\ cli_error = "none"
    /\ cli_returned = FALSE
    /\ cli_artifact = Absent
    /\ cli_files = 0
    /\ cli_exit = 0
    /\ ba_pc = "off"
    /\ ba_timeout_is_conn \in BOOLEAN
    /\ ba_comments = <<>>
    /\ ba_batch_size = 0
    /\ ba_i = 0
    /\ ba_k = 0
    /\ ba_responses = <<>>
    /\ ba_calls = <<>>
    /\ ba_results = <<>>

CliOff ==
    /\ cli_pc = "off"
    /\ cli_comments = <<>>
    /\ cli_error = "none"
    /\ cli_returned = FALSE
    /\ cli_artifact = Absent
    /\ cli_files = 0
    /\ cli_exit = 0

\* main up to the call of batch_analyze: cli.py:126-134 and 33-54.  The
\* scraper returns or raises, LLMClient() raises ImportError without the SDK,
\* and an exception reaches the except clause of main, which exits with 1.
CliScrape(outcome, sdk_installed) ==
    /\ cli_pc = "start"
    /\ IF outcome.kind = "raised" \/ ~sdk_installed
       THEN /\ cli_pc' = "exited"
            /\ cli_error' = IF outcome.kind = "raised" THEN "RuntimeError" ELSE "ImportError"
            /\ cli_exit' = 1
            /\ cli_comments' = outcome.comments
            /\ UNCHANGED ba_vars
       ELSE /\ cli_pc' = "analyzing"
            /\ cli_comments' = outcome.comments
            /\ ba_pc' = "called"
            /\ ba_comments' = outcome.comments
            /\ UNCHANGED <<cli_error, cli_exit, ba_timeout_is_conn, ba_batch_size,
                           ba_i, ba_k, ba_responses, ba_calls, ba_results>>
    /\ UNCHANGED <<cli_returned, cli_artifact, cli_files>>

\* scrape_and_analyze from the return of batch_analyze, cli.py:55-72, and the
\* rest of main, cli.py:135-150: the summary request is answered by resp.
CliFinish(resp) ==
    /\ cli_pc = "analyzing"
    /\ ba_pc = "returned"
    /\ LET e == FirstError(SummarizeRaises(resp, ba_timeout_is_conn),
                           DistributionRaises(ba_results))
       IN /\ cli_error' = e
          /\ cli_returned' = (e = "none")
          /\ cli_artifact' = IF e = "none" THEN cli_comments ELSE cli_artifact
          /\ cli_files' = IF e = "none" THEN cli_files + 1 ELSE cli_files
          /\ cli_exit' = IF e = "none" THEN 0 ELSE 1
    /\ cli_pc' = "exited"
    /\ UNCHANGED <<cli_comments, ba_vars>>


(***************************************************************************)
(* 4.9 Browser strategy: TikTokScraper as an async context manager, with   *)
(*     scrape_video_comments as the body of the async with statement       *)
(***************************************************************************)

VARIABLES
    ts_pc,           \* "off" | "new" | "entered" | "navigating" | "loop" |
                     \* "after_loop" | "body_done" | "exited"
    ts_max,          \* max_comments; 0 stands for None
    ts_playwright,   \* the Playwright driver: "none" | "open" | "closed"
    ts_browser,      \* the browser: "none" | "open" | "closed"
    ts_context,      \* the browser context: "none" | "open" | "closed"
    ts_page,         \* the page: "none" | "open" | "closed"
    ts_attempts,     \* attempts of _navigate_with_retry so far
    ts_comments,     \* comments
    ts_consecutive,  \* consecutive_no_new
    ts_hist,         \* history: what the page rendered in each round
    ts_error,        \* the exception pending or raised, or "none"
    ts_returned      \* scrape_video_comments returned comments

ts_vars == <<ts_pc, ts_max, ts_playwright, ts_browser, ts_context, ts_page,
             ts_attempts, ts_comments, ts_consecutive, ts_hist, ts_error,
             ts_returned>>

TIKTOK_MAX_RETRIES == 5
max_consecutive == 5
MaxTsRounds == 7
MaxTsCap == 2

\* An element whose data makes the construction of the Comment raise.
TsPoison == "<invalid>"

\* What page.evaluate returns in one round: the texts of the rendered
\* comment elements.
TsFixedSet == <<"a", "b">>
TsBatches == {<<>>, TsFixedSet, <<"a", TsPoison, "b">>}

\* A comment with the id numbered n (f"{video_id}_comment_{n}").
TsComment(n, text) == [comment_id |-> n, text |-> text]

\* any(c.comment_id == comment_id for c in existing_comments), line 220
TsKnownId(existing_comments, comment_id) ==
    \E j \in 1..Len(existing_comments) : existing_comments[j].comment_id = comment_id

\* The for loop of _extract_comments from element idx (1-based) on; the
\* except clause returns what was built before the exception.
RECURSIVE TsExtractFrom(_, _, _, _)
TsExtractFrom(batch, idx, existing_comments, new_comments) ==
    IF idx > Len(batch)
    THEN new_comments
    ELSE IF TsKnownId(existing_comments, Len(existing_comments) + idx - 1)
         THEN TsExtractFrom(batch, idx + 1, existing_comments, new_comments)
         ELSE IF batch[idx] = TsPoison
              THEN new_comments
              ELSE TsExtractFrom(batch, idx + 1, existing_comments,
                      Append(new_comments,
                             TsComment(Len(existing_comments) + idx - 1, batch[idx])))

\* TikTokScraper._extract_comments; page.evaluate raised when evaluated is
\* FALSE.
_extract_comments(evaluated, batch, existing_comments) ==
    IF evaluated THEN TsExtractFrom(batch, 1, existing_comments, <<>>) ELSE <<>>

\* State after TikTokScraper(...): lines 43-45.
TsInit ==
    /\ ts_pc = "new"
    /\ ts_max \in 0..MaxTsCap
    /\ ts_playwright = "none"
    /\ ts_browser = "none"
    /\ ts_context = "none"
    /\ ts_page = "none"
    /\ ts_attempts = 0
    /\ ts_comments = <<>>
    /\ ts_consecutive = 0
    /\ ts_hist = <<>>
    /\ ts_error = "none"
    /\ ts_returned = FALSE

TsOff ==
    /\ ts_pc = "off"
    /\ ts_max = 0
    /\ ts_playwright = "none"
    /\ ts_browser = "none"
    /\ ts_context = "none"
    /\ ts_page = "none"
    /\ ts_attempts = 0
    /\ ts_comments = <<>>
    /\ ts_consecutive = 0
    /\ ts_hist = <<>>
    /\ ts_error = "none"
    /\ ts_returned = FALSE

InitSteps == {"start", "launch", "new_context", "add_init_script"}

\* __aenter__, lines 47-50 and 56-88: the driver is started, the browser
\* launched, the context created and the init script added; the step named
\* fail_at raises.  An exception of __aenter__ leaves the async with
\* statement without __aexit__.
TsEnter(fail_at) ==
    /\ ts_pc = "new"
    /\ ts_playwright' = IF fail_at = "start" THEN "none" ELSE "open"
    /\ ts_browser' = IF fail_at \in {"start", "launch"} THEN "none" ELSE "open"
    /\ ts_context' = IF fail_at \in {"start", "launch", "new_context"}
                     THEN "none" ELSE "open"
    /\ ts_pc' = IF fail_at = "none" THEN "entered" ELSE "exited"
    /\ ts_error' = IF fail_at = "none" THEN "none" ELSE "Error"
    /\ UNCHANGED <<ts_max, ts_page, ts_attempts, ts_comments, ts_consecutive,
                   ts_hist, ts_returned>>

\* scrape_video_comments, line 112: context.new_page().
TsNewPage(ok) ==
    /\ ts_pc = "entered"
    /\ ts_page' = IF ok THEN "open" ELSE "none"
    /\ ts_pc' = IF ok THEN "navigating" ELSE "body_done"
    /\ ts_error' = IF ok THEN "none" ELSE "RuntimeError"
    /\ UNCHANGED <<ts_max, ts_playwright, ts_browser, ts_context, ts_attempts,
                   ts_comments, ts_consecutive, ts_hist, ts_returned>>

\* One attempt of _navigate_with_retry, lines 151-160; after the last
\* attempt the exception is raised again and line 149 wraps it.
TsNavigate(ok) ==
    /\ ts_pc = "navigating"
    /\ ts_attempts' = ts_attempts + 1
    /\ IF ok
       THEN ts_pc' = "loop" /\ UNCHANGED ts_error
       ELSE IF ts_attempts + 1 = TIKTOK_MAX_RETRIES
            THEN ts_pc' = "body_done" /\ ts_error' = "RuntimeError"
            ELSE UNCHANGED <<ts_pc, ts_error>>
    /\ UNCHANGED <<ts_max, ts_playwright, ts_browser, ts_context, ts_page,
                   ts_comments, ts_consecutive, ts_hist, ts_returned>>

\* max_comments and len(comments) >= max_comments, line 126
TsCapReached(max_comments, comments) ==
    max_comments # 0 /\ Len(comments) >= max_comments

\* The while loop breaks at line 127.
TsLoopExit ==
    /\ ts_pc = "loop"
    /\ TsCapReached(ts_max, ts_comments)
    /\ ts_pc' = "after_loop"
    /\ UNCHANGED <<ts_max, ts_playwright, ts_browser, ts_context, ts_page,
                   ts_attempts, ts_comments, ts_consecutive, ts_hist, ts_error,
                   ts_returned>>

\* One round of the while loop, lines 129-143: scroll, extract, extend,
\* count.  A raising scroll leaves the function through line 149.
TsRound(scroll_ok, evaluated, batch) ==
    /\ ts_pc = "loop"
    /\ ~TsCapReached(ts_max, ts_comments)
    /\ Len(ts_hist) < MaxTsRounds
    /\ IF ~scroll_ok
       THEN /\ ts_pc' = "body_done"
            /\ ts_error' = "RuntimeError"
            /\ UNCHANGED <<ts_comments, ts_consecutive, ts_hist>>
       ELSE LET new_comments == _extract_comments(evaluated, batch, ts_comments)
            IN /\ ts_comments' = ts_comments \o new_comments
               /\ ts_hist' = Append(ts_hist,
                                [evaluated |-> evaluated, batch |-> batch,
                                 new |-> Len(new_comments)])
               /\ ts_consecutive' =
                     IF Len(new_comments) = 0 THEN ts_consecutive + 1 ELSE 0
               /\ ts_pc' = IF Len(new_comments) = 0
                              /\ ts_consecutive + 1 >= max_consecutive
                           THEN "after_loop" ELSE "loop"
               /\ UNCHANGED ts_error
    /\ UNCHANGED <<ts_max, ts_playwright, ts_browser, ts_context, ts_page,
                   ts_attempts, ts_returned>>

\* Lines 145-146: page.close() and return comments; a raising close leaves
\* through line 149.
TsReturn(close_ok) ==
    /\ ts_pc = "after_loop"
    /\ ts_page' = IF close_ok THEN "closed" ELSE ts_page
    /\ ts_returned' = close_ok
    /\ ts_error' = IF close_ok THEN "none" ELSE "RuntimeError"
    /\ ts_pc' = "body_done"
    /\ UNCHANGED <<ts_max, ts_playwright, ts_browser, ts_context, ts_attempts,
                   ts_comments, ts_consecutive, ts_hist>>

CloseSteps == {"context", "browser", "playwright"}

\* __aexit__, lines 52-54 and 90-97: context.close(), browser.close(),
\* playwright.stop() one after the other; the step named fail_at raises and
\* the steps after it are not run.  Closing the context closes its page.
TsExit(fail_at) ==
    /\ ts_pc = "body_done"
    /\ ts_context' = IF fail_at = "context" THEN ts_context ELSE "closed"
    /\ ts_page' = IF fail_at # "context" /\ ts_page = "open" THEN "closed" ELSE ts_page
    /\ ts_browser' = IF fail_at \in {"context", "browser"} THEN ts_browser ELSE "closed"
    /\ ts_playwright' = IF fail_at \in CloseSteps THEN ts_playwright ELSE "closed"
    /\ ts_error' = IF fail_at \in CloseSteps THEN "Error" ELSE ts_error
    /\ ts_pc' = "exited"
    /\ UNCHANGED <<ts_max, ts_attempts, ts_comments, ts_consecutive, ts_hist,
                   ts_returned>>


(***************************************************************************)
(* 4.10 Data model: CommentThread and its derived totals                   *)
(***************************************************************************)

VARIABLES
    th_pc,                 \* "off" | "live"
    th_main,               \* main_comment: its like_count and reply_count
    th_replies,            \* replies: the like_count of each reply
    th_total_like_count,   \* total_like_count
    th_total_reply_count,  \* total_reply_count
    th_calls,              \* history: calls of calculate_totals so far
    th_dirty               \* history: replies changed since the last call

th_vars == <<th_pc, th_main, th_replies, th_total_like_count,
             th_total_reply_count, th_calls, th_dirty>>

MaxReplies == 3
MaxTotalsCalls == 3

LikeCounts == {0, 1, 5}
MainComments == [like_count : {0, 10}, reply_count : {0, 5}]

\* sum(r.like_count for r in self.replies)
RECURSIVE SumLikes(_)
SumLikes(replies) ==
    IF replies = <<>> THEN 0 ELSE Head(replies) + SumLikes(Tail(replies))

\* The like total without the main comment's own likes.
TotalLikesOfRepliesOnly(main_comment, replies) == SumLikes(replies)

\* Lines 61-63.
TotalLikes(main_comment, replies) == main_comment.like_count + SumLikes(replies)

\* Line 64.
TotalReplies(main_comment, replies) == main_comment.reply_count + Len(replies)

\* CommentThread(main_comment=...): no reply, both totals 0 (lines 55-57).
ThInit ==
    /\ th_pc = "live"
    /\ th_main \in MainComments
    /\ th_replies = <<>>
    /\ th_total_like_count = 0
    /\ th_total_reply_count = 0
    /\ th_calls = 0
    /\ th_dirty = FALSE

ThOff ==
    /\ th_pc = "off"
    /\ th_main = [like_count |-> 0, reply_count |-> 0]
    /\ th_replies = <<>>
    /\ th_total_like_count = 0
    /\ th_total_reply_count = 0
    /\ th_calls = 0
    /\ th_dirty = FALSE

\* thread.replies.append(reply): the totals are plain fields and stay.
ThAddReply(like_count) ==
    /\ th_pc = "live"
    /\ Len(th_replies) < MaxReplies
    /\ th_replies' = Append(th_replies, like_count)
    /\ th_dirty' = TRUE
    /\ UNCHANGED <<th_pc, th_main, th_total_like_count, th_total_reply_count, th_calls>>

\* thread.replies.pop()
ThRemoveReply ==
    /\ th_pc = "live"
    /\ th_replies # <<>>
    /\ th_replies' = SubSeq(th_replies, 1, Len(th_replies) - 1)
    /\ th_dirty' = TRUE
    /\ UNCHANGED <<th_pc, th_main, th_total_like_count, th_total_reply_count, th_calls>>

\* CommentThread.calculate_totals, lines 59-64.
calculate_totals ==
    /\ th_pc = "live"
    /\ th_calls < MaxTotalsCalls
    /\ th_total_like_count' = TotalLikes(th_main, th_replies)
    /\ th_total_reply_count' = TotalReplies(th_main, th_replies)
    /\ th_calls' = th_calls + 1
    /\ th_dirty' = FALSE
    /\ UNCHANGED <<th_pc, th_main, th_replies>>


(***************************************************************************)
(* 4.11 Data model: VideoSummary and its sentiment distribution            *)
(***************************************************************************)

VARIABLES
    vs_pc,            \* "off" | "live"
    vs_results,       \* analysis_results
    vs_distribution,  \* sentiment_distribution: a map label -> count
    vs_outcome,       \* history: "none" before the first call, then "returned"
                      \* or "raised" for the last call of the method
    vs_stale          \* history: analysis_results was assigned since that call

vs_vars == <<vs_pc, vs_results, vs_distribution, vs_outcome, vs_stale>>

MaxResults == 3

\* An item of analysis_results: an AnalysisResult with its sentiment, or a
\* dict (the field is assigned without validation).
AnalysisResultOf(label) == [kind |-> "AnalysisResult", sentiment |-> label]
DictResult == [kind |-> "dict", sentiment |-> "neutral"]
ResultItems == {AnalysisResultOf(l) : l \in SentimentLabels} \cup {DictResult}

EmptyMap == [l \in {} |-> 0]

\* d.get(key, 0)
MapGet(d, key) == IF key \in DOMAIN d THEN d[key] ELSE 0

\* d[key] = d.get(key, 0) + 1, lines 93-95
CountOne(d, key) ==
    [l \in DOMAIN d \cup {key} |-> IF l = key THEN MapGet(d, key) + 1 ELSE d[l]]

\* The method without line 90: the loop goes on from the map of the last call.
StartMapKept(old) == old

\* self.sentiment_distribution = {}, line 90
StartMap(old) == EmptyMap

\* The for loop of lines 91-95 from item i on: the map, and whether
\* result.sentiment raised (on a dict), which ends the method.
RECURSIVE DistributionFrom(_, _, _)
DistributionFrom(results, i, d) ==
    IF i > Len(results)
    THEN [map |-> d, raised |-> FALSE]
    ELSE IF results[i].kind # "AnalysisResult"
         THEN [map |-> d, raised |-> TRUE]
         ELSE DistributionFrom(results, i + 1, CountOne(d, results[i].sentiment))

VsInit ==
    /\ vs_pc = "live"
    /\ vs_results = <<>>
    /\ vs_distribution = EmptyMap
    /\ vs_outcome = "none"
    /\ vs_stale = FALSE

VsOff ==
    /\ vs_pc = "off"
    /\ vs_results = <<>>
    /\ vs_distribution = EmptyMap
    /\ vs_outcome = "none"
    /\ vs_stale = FALSE

\* summary.analysis_results = results (cli.py:55)
VsAssignResults(results) ==
    /\ vs_pc = "live"
    /\ vs_results' = results
    /\ vs_stale' = TRUE
    /\ UNCHANGED <<vs_pc, vs_distribution, vs_outcome>>

\* summary.analysis_results.append(item)
VsAppendResult(item) ==
    /\ vs_pc = "live"
    /\ Len(vs_results) < MaxResults
    /\ vs_results' = Append(vs_results, item)
    /\ vs_stale' = TRUE
    /\ UNCHANGED <<vs_pc, vs_distribution, vs_outcome>>

\* VideoSummary.calculate_sentiment_distribution, lines 88-95.
calculate_sentiment_distribution ==
    /\ vs_pc = "live"
    /\ LET got == DistributionFrom(vs_results, 1, StartMap(vs_distribution))
       IN /\ vs_distribution' = got.map
          /\ vs_outcome' = IF got.raised THEN "raised" ELSE "returned"
    /\ vs_stale' = FALSE
    /\ UNCHANGED <<vs_pc, vs_results>>


(***************************************************************************)
(* 4.12 TikTokScraper._navigate_with_retry, one call                       *)
(***************************************************************************)

VARIABLES
    nav_pc,          \* "off" | "loop" | "returned" | "raised"
    nav_max_retries, \* self.max_retries, from settings.TIKTOK_MAX_RETRIES
    nav_attempt,     \* attempt, the loop variable
    nav_gotos,       \* page.goto calls issued
    nav_failures,    \* history: the exceptions page.goto raised, in order
    nav_sleeps,      \* history: the delays slept, in order
    nav_navigated,   \* whether a page.goto call succeeded
    nav_raised       \* the exception the call raised, or "none"

nav_vars == <<nav_pc, nav_max_retries, nav_attempt, nav_gotos, nav_failures,
              nav_sleeps, nav_navigated, nav_raised>>

\* The largest TIKTOK_MAX_RETRIES explored; the setting is an int read from
\* the environment with no lower limit, default TIKTOK_MAX_RETRIES.
MaxNavRetries == 5

GotoOutcomes == {"ok", "TimeoutError", "Error"}

\* 2 ** attempt
RECURSIVE Pow2(_)
Pow2(n) == IF n = 0 THEN 1 ELSE 2 * Pow2(n - 1)

NavInit ==
    /\ nav_pc = "loop"
    /\ nav_max_retries \in 0..MaxNavRetries
    /\ nav_attempt = 0
    /\ nav_gotos = 0
    /\ nav_failures = <<>>
    /\ nav_sleeps = <<>>
    /\ nav_navigated = FALSE
    /\ nav_raised = "none"

NavOff ==
    /\ nav_pc = "off"
    /\ nav_max_retries = 0
    /\ nav_attempt = 0
    /\ nav_gotos = 0
    /\ nav_failures = <<>>
    /\ nav_sleeps = <<>>
    /\ nav_navigated = FALSE
    /\ nav_raised = "none"

\* attempt == self.max_retries - 1, line 158
LastAttempt(attempt, max_retries) == attempt = max_retries - 1

\* One iteration of the for loop, lines 153-160: page.goto, then return on
\* success, raise again after the last attempt, sleep otherwise.
NavAttempt(outcome) ==
    /\ nav_pc = "loop"
    /\ nav_attempt < nav_max_retries
    /\ nav_gotos' = nav_gotos + 1
    /\ IF outcome = "ok"
       THEN /\ nav_pc' = "returned"
            /\ nav_navigated' = TRUE
            /\ UNCHANGED <<nav_attempt, nav_failures, nav_sleeps, nav_raised>>
       ELSE /\ nav_failures' = Append(nav_failures, outcome)
            /\ UNCHANGED nav_navigated
            /\ IF LastAttempt(nav_attempt, nav_max_retries)
               THEN /\ nav_pc' = "raised"
                    /\ nav_raised' = outcome
                    /\ UNCHANGED <<nav_attempt, nav_sleeps>>
               ELSE /\ nav_sleeps' = Append(nav_sleeps, Pow2(nav_attempt))
                    /\ nav_attempt' = nav_attempt + 1
                    /\ UNCHANGED <<nav_pc, nav_raised>>
    /\ UNCHANGED nav_max_retries

\* range(self.max_retries) is exhausted: the function ends and returns None.
NavLoopEnd ==
    /\ nav_pc = "loop"
    /\ nav_attempt >= nav_max_retries
    /\ nav_pc' = "returned"
    /\ UNCHANGED <<nav_max_retries, nav_attempt, nav_gotos, nav_failures,
                   nav_sleeps, nav_navigated, nav_raised>>

(***************************************************************************)
(* Specifications                                                          *)
(***************************************************************************)

vars == <<res_vars, dy_vars, tk_vars, pro_vars, llm_vars, ba_vars, cli_vars, ts_vars, th_vars, vs_vars, nav_vars>>

\* The four resolvers on one URL.
InitResolver == ResInit /\ DyOff /\ TkOff /\ ProOff /\ LlmOff /\ BaOff /\ CliOff /\ TsOff /\ ThOff /\ VsOff /\ NavOff
NextResolver ==
    \E c \in Resolvers :
        ExtractVideoId(c) /\ UNCHANGED <<dy_vars, tk_vars, pro_vars, llm_vars, ba_vars, cli_vars, ts_vars, th_vars, vs_vars, nav_vars>>
SpecResolver == InitResolver /\ [][NextResolver]_vars

\* DouyinAPIScraper.scrape, one call on a fresh scraper.
InitDouyinAPI == DyInit /\ ResOff /\ TkOff /\ ProOff /\ LlmOff /\ BaOff /\ CliOff /\ TsOff /\ ThOff /\ VsOff /\ NavOff
NextDouyinAPI ==
    \/ DyScrapeStart /\ UNCHANGED <<res_vars, tk_vars, pro_vars, llm_vars, ba_vars, cli_vars, ts_vars, th_vars, vs_vars, nav_vars>>
    \/ DyLoopExit /\ UNCHANGED <<res_vars, tk_vars, pro_vars, llm_vars, ba_vars, cli_vars, ts_vars, th_vars, vs_vars, nav_vars>>
    \/ \E resp \in DyResponsesAt(dy_env, Len(dy_hist) + 1) :
          DyRequest(resp) /\ UNCHANGED <<res_vars, tk_vars, pro_vars, llm_vars, ba_vars, cli_vars, ts_vars, th_vars, vs_vars, nav_vars>>
    \/ \E resp \in AltResponses :
          DyAltAttempt(resp) /\ UNCHANGED <<res_vars, tk_vars, pro_vars, llm_vars, ba_vars, cli_vars, ts_vars, th_vars, vs_vars, nav_vars>>
    \/ DyFinish /\ UNCHANGED <<res_vars, tk_vars, pro_vars, llm_vars, ba_vars, cli_vars, ts_vars, th_vars, vs_vars, nav_vars>>
SpecDouyinAPI == InitDouyinAPI /\ [][NextDouyinAPI]_vars

\* TikTokAPIScraper.scrape_video_comments, one call.
InitTikTokAPI == TkInit /\ ResOff /\ DyOff /\ ProOff /\ LlmOff /\ BaOff /\ CliOff /\ TsOff /\ ThOff /\ VsOff /\ NavOff
NextTikTokAPI ==
    \/ TkScrapeStart /\ UNCHANGED <<res_vars, dy_vars, pro_vars, llm_vars, ba_vars, cli_vars, ts_vars, th_vars, vs_vars, nav_vars>>
    \/ TkLoopExit /\ UNCHANGED <<res_vars, dy_vars, pro_vars, llm_vars, ba_vars, cli_vars, ts_vars, th_vars, vs_vars, nav_vars>>
    \/ \E resp \in TkResponsesAt(tk_env, Len(tk_hist) + 1) :
          TkRequest(resp) /\ UNCHANGED <<res_vars, dy_vars, pro_vars, llm_vars, ba_vars, cli_vars, ts_vars, th_vars, vs_vars, nav_vars>>
SpecTikTokAPI == InitTikTokAPI /\ [][NextTikTokAPI]_vars

\* DouyinScraperPro.scrape, one call on a fresh scraper.
InitDouyinPro == ProInit /\ ResOff /\ DyOff /\ TkOff /\ LlmOff /\ BaOff /\ CliOff /\ TsOff /\ ThOff /\ VsOff /\ NavOff
NextDouyinPro ==
    \/ \E outcome \in {"ok", "goto_timeout", "launch_error"} :
          ProScrapeStart(outcome) /\ UNCHANGED <<res_vars, dy_vars, tk_vars, llm_vars, ba_vars, cli_vars, ts_vars, th_vars, vs_vars, nav_vars>>
    \/ ProLoopExit /\ UNCHANGED <<res_vars, dy_vars, tk_vars, llm_vars, ba_vars, cli_vars, ts_vars, th_vars, vs_vars, nav_vars>>
    \/ \E evaluated \in BOOLEAN, batch \in ProBatchesAt(pro_env, pro_scroll_attempts + 1) :
          /\ pro_env = "plain" => evaluated
          /\ ProRound(evaluated, batch) /\ UNCHANGED <<res_vars, dy_vars, tk_vars, llm_vars, ba_vars, cli_vars, ts_vars, th_vars, vs_vars, nav_vars>>
    \/ ProFinish /\ UNCHANGED <<res_vars, dy_vars, tk_vars, llm_vars, ba_vars, cli_vars, ts_vars, th_vars, vs_vars, nav_vars>>
SpecDouyinPro == InitDouyinPro /\ [][NextDouyinPro]_vars

\* DouyinScraperPro: one instance, scrape called up to MaxProCalls times.
NextDouyinProReuse ==
    \/ \E outcome \in {"ok", "goto_timeout", "launch_error"} :
          ProScrapeStart(outcome) /\ UNCHANGED <<res_vars, dy_vars, tk_vars, llm_vars, ba_vars, cli_vars, ts_vars, th_vars, vs_vars, nav_vars>>
    \/ ProLoopExit /\ UNCHANGED <<res_vars, dy_vars, tk_vars, llm_vars, ba_vars, cli_vars, ts_vars, th_vars, vs_vars, nav_vars>>
    \/ \E evaluated \in BOOLEAN, batch \in ProBatchesAt(pro_env, pro_scroll_attempts + 1) :
          /\ pro_env = "plain" => evaluated
          /\ ProRound(evaluated, batch) /\ UNCHANGED <<res_vars, dy_vars, tk_vars, llm_vars, ba_vars, cli_vars, ts_vars, th_vars, vs_vars, nav_vars>>
    \/ ProFinish /\ UNCHANGED <<res_vars, dy_vars, tk_vars, llm_vars, ba_vars, cli_vars, ts_vars, th_vars, vs_vars, nav_vars>>
    \/ ProScrapeAgain /\ UNCHANGED <<res_vars, dy_vars, tk_vars, llm_vars, ba_vars, cli_vars, ts_vars, th_vars, vs_vars, nav_vars>>
SpecDouyinProReuse == InitDouyinPro /\ [][NextDouyinProReuse]_vars

\* _parse_sentiment_response on one content, given in each form.
InitLLMParse == LlmInit /\ ResOff /\ DyOff /\ TkOff /\ ProOff /\ BaOff /\ CliOff /\ TsOff /\ ThOff /\ VsOff /\ NavOff
NextLLMParse ==
    \E f \in Forms :
        ParseResponse(f) /\ UNCHANGED <<res_vars, dy_vars, tk_vars, pro_vars, ba_vars, cli_vars, ts_vars, th_vars, vs_vars, nav_vars>>
SpecLLMParse == InitLLMParse /\ [][NextLLMParse]_vars

\* batch_analyze, one call, with the analyze_sentiment calls it makes.
InitBatch == BaInit /\ ResOff /\ DyOff /\ TkOff /\ ProOff /\ LlmOff /\ CliOff /\ TsOff /\ ThOff /\ VsOff /\ NavOff
NextBatch ==
    \/ BatchAnalyzeStart /\ UNCHANGED <<res_vars, dy_vars, tk_vars, pro_vars, llm_vars, cli_vars, ts_vars, th_vars, vs_vars, nav_vars>>
    \/ \E resp \in LlmResponses :
          AnalyzeRequest(resp) /\ UNCHANGED <<res_vars, dy_vars, tk_vars, pro_vars, llm_vars, cli_vars, ts_vars, th_vars, vs_vars, nav_vars>>
SpecBatch == InitBatch /\ [][NextBatch]_vars

\* One run of the package CLI.
InitCli == CliInit /\ ResOff /\ DyOff /\ TkOff /\ ProOff /\ LlmOff /\ TsOff /\ ThOff /\ VsOff /\ NavOff
NextCli ==
    \/ \E outcome \in ScrapeOutcomes, sdk_installed \in BOOLEAN :
          CliScrape(outcome, sdk_installed)
             /\ UNCHANGED <<res_vars, dy_vars, tk_vars, pro_vars, llm_vars, ts_vars, th_vars, vs_vars, nav_vars>>
    \/ BatchAnalyzeStart
          /\ UNCHANGED <<res_vars, dy_vars, tk_vars, pro_vars, llm_vars, cli_vars, ts_vars, th_vars, vs_vars, nav_vars>>
    \/ \E resp \in LlmResponses :
          AnalyzeRequest(resp)
             /\ UNCHANGED <<res_vars, dy_vars, tk_vars, pro_vars, llm_vars, cli_vars, ts_vars, th_vars, vs_vars, nav_vars>>
    \/ \E resp \in LlmResponses :
          CliFinish(resp) /\ UNCHANGED <<res_vars, dy_vars, tk_vars, pro_vars, llm_vars, ts_vars, th_vars, vs_vars, nav_vars>>
SpecCli == InitCli /\ [][NextCli]_vars

\* async with TikTokScraper(...) as scraper: scraper.scrape_video_comments(...)
InitTikTokScraper == TsInit /\ ResOff /\ DyOff /\ TkOff /\ ProOff /\ LlmOff /\ BaOff /\ CliOff /\ ThOff /\ VsOff /\ NavOff
NextTikTokScraper ==
    \/ \E fail_at \in InitSteps \cup {"none"} :
          TsEnter(fail_at)
             /\ UNCHANGED <<res_vars, dy_vars, tk_vars, pro_vars, llm_vars, ba_vars, cli_vars, th_vars, vs_vars, nav_vars>>
    \/ \E ok \in BOOLEAN :
          TsNewPage(ok)
             /\ UNCHANGED <<res_vars, dy_vars, tk_vars, pro_vars, llm_vars, ba_vars, cli_vars, th_vars, vs_vars, nav_vars>>
    \/ \E ok \in BOOLEAN :
          TsNavigate(ok)
             /\ UNCHANGED <<res_vars, dy_vars, tk_vars, pro_vars, llm_vars, ba_vars, cli_vars, th_vars, vs_vars, nav_vars>>
    \/ TsLoopExit
          /\ UNCHANGED <<res_vars, dy_vars, tk_vars, pro_vars, llm_vars, ba_vars, cli_vars, th_vars, vs_vars, nav_vars>>
    \/ \E scroll_ok \in BOOLEAN, evaluated \in BOOLEAN, batch \in TsBatches :
          /\ ~evaluated => batch = <<>>
          /\ TsRound(scroll_ok, evaluated, batch)
             /\ UNCHANGED <<res_vars, dy_vars, tk_vars, pro_vars, llm_vars, ba_vars, cli_vars, th_vars, vs_vars, nav_vars>>
    \/ \E close_ok \in BOOLEAN :
          TsReturn(close_ok)
             /\ UNCHANGED <<res_vars, dy_vars, tk_vars, pro_vars, llm_vars, ba_vars, cli_vars, th_vars, vs_vars, nav_vars>>
    \/ \E fail_at \in CloseSteps \cup {"none"} :
          TsExit(fail_at)
             /\ UNCHANGED <<res_vars, dy_vars, tk_vars, pro_vars, llm_vars, ba_vars, cli_vars, th_vars, vs_vars, nav_vars>>
SpecTikTokScraper == InitTikTokScraper /\ [][NextTikTokScraper]_vars

\* One call of either scraper of the API strategy.
APIStrategyInit == InitDouyinAPI \/ InitTikTokAPI
APIStrategyNext == NextDouyinAPI \/ NextTikTokAPI
SpecAPIStrategy == APIStrategyInit /\ [][APIStrategyNext]_vars

\* One CommentThread: its replies change and calculate_totals is called.
InitThread == ThInit /\ ResOff /\ DyOff /\ TkOff /\ ProOff /\ LlmOff /\ BaOff /\ CliOff /\ TsOff /\ VsOff /\ NavOff
NextThread ==
    \/ \E like_count \in LikeCounts :
          ThAddReply(like_count)
             /\ UNCHANGED <<res_vars, dy_vars, tk_vars, pro_vars, llm_vars, ba_vars, cli_vars, ts_vars, vs_vars, nav_vars>>
    \/ ThRemoveReply
          /\ UNCHANGED <<res_vars, dy_vars, tk_vars, pro_vars, llm_vars, ba_vars, cli_vars, ts_vars, vs_vars, nav_vars>>
    \/ calculate_totals
          /\ UNCHANGED <<res_vars, dy_vars, tk_vars, pro_vars, llm_vars, ba_vars, cli_vars, ts_vars, vs_vars, nav_vars>>
SpecThread == InitThread /\ [][NextThread]_vars

\* One VideoSummary: analysis_results is assigned and the distribution is
\* calculated.
InitSummary == VsInit /\ ResOff /\ DyOff /\ TkOff /\ ProOff /\ LlmOff /\ BaOff /\ CliOff /\ TsOff /\ ThOff /\ NavOff
NextSummary ==
    \/ \E results \in {<<>>} \cup {<<item>> : item \in ResultItems} :
          VsAssignResults(results)
             /\ UNCHANGED <<res_vars, dy_vars, tk_vars, pro_vars, llm_vars, ba_vars, cli_vars, ts_vars, th_vars, nav_vars>>
    \/ \E item \in ResultItems :
          VsAppendResult(item)
             /\ UNCHANGED <<res_vars, dy_vars, tk_vars, pro_vars, llm_vars, ba_vars, cli_vars, ts_vars, th_vars, nav_vars>>
    \/ calculate_sentiment_distribution
          /\ UNCHANGED <<res_vars, dy_vars, tk_vars, pro_vars, llm_vars, ba_vars, cli_vars, ts_vars, th_vars, nav_vars>>
SpecSummary == InitSummary /\ [][NextSummary]_vars

\* _navigate_with_retry, one call, for each value of max_retries.
InitNavigate == NavInit /\ ResOff /\ DyOff /\ TkOff /\ ProOff /\ LlmOff /\ BaOff /\ CliOff /\ TsOff /\ ThOff /\ VsOff
NextNavigate ==
    \/ \E outcome \in GotoOutcomes :
          NavAttempt(outcome)
             /\ UNCHANGED <<res_vars, dy_vars, tk_vars, pro_vars, llm_vars, ba_vars, cli_vars, ts_vars, th_vars, vs_vars>>
    \/ NavLoopEnd
          /\ UNCHANGED <<res_vars, dy_vars, tk_vars, pro_vars, llm_vars, ba_vars, cli_vars, ts_vars, th_vars, vs_vars>>
SpecNavigate == InitNavigate /\ [][NextNavigate]_vars


(***************************************************************************)
(* Properties of the API strategy                                          *)
(***************************************************************************)

\* The request/response pairs of the main loop are status-200 pages that
\* carry records.
GoodPage(h) == h.resp.kind = "json" /\ h.resp.has_field /\ h.resp.records # <<>>

\* The normalized comments of pages 1..k of a history, in page order.
RECURSIVE PagesComments(_, _, _)
PagesComments(hist, video_id, k) ==
    IF k = 0 THEN <<>>
    ELSE PagesComments(hist, video_id, k - 1)
         \o _parse_comments(hist[k].resp.records, video_id)

\* Page k is the first page whose next-cursor is empty, all pages up to it
\* being status-200 pages with records.
FirstEmptyCursorAt(hist, k) ==
    /\ k \in 1..Len(hist)
    /\ \A i \in 1..k : GoodPage(hist[i])
    /\ \A i \in 1..(k - 1) : hist[i].resp.cursor # NoCursor
    /\ hist[k].resp.cursor = NoCursor

\* C1: for every cap N >= 1 the list returned by the API strategy holds at
\* most N comments (DouyinAPIScraper.scrape, main loop and alternate endpoint,
\* and TikTokAPIScraper.scrape_video_comments).
C1_ReturnedWithinCap ==
    /\ (dy_pc = "done" /\ dy_max >= 1) => Len(dy_result.comments) <= dy_max
    /\ (tk_pc = "done" /\ tk_max >= 1) => Len(tk_result) <= tk_max

\* C2: with no cap, when pages 1..k are status-200 pages with records and page
\* k is the first with an empty next-cursor, exactly k requests are sent (none
\* follows page k, k <= 50) and scrape returns the normalized comments of
\* pages 1..k in page order.
C2_StopsAtEmptyCursor ==
    \A k \in 1..Len(dy_hist) :
        (dy_max = 0 /\ FirstEmptyCursorAt(dy_hist, k)) =>
            /\ Len(dy_hist) = k
            /\ k <= max_pages
            /\ dy_pc \in {"finish", "done"}
            /\ dy_alt_reqs = 0
            /\ dy_pc = "done" =>
                 dy_result = ScrapeResult(PagesComments(dy_hist, dy_video_id, k))

\* C2 witness: two comments + cursor "c1", then one comment + empty cursor,
\* returned as three comments after two requests.
C2_Witness ==
    /\ dy_pc = "done"
    /\ dy_max = 0
    /\ Len(dy_hist) = 2
    /\ dy_hist[1].resp = JsonPage(<<RecHi, RecYo>>, CursorC1, "absent")
    /\ dy_hist[2].resp = JsonPage(<<RecHi>>, NoCursor, "absent")
    /\ Len(dy_result.comments) = 3

\* The smallest k such that pages 1..k of the history hold at least n
\* normalized comments (there is one).
SmallestReaching(hist, video_id, n) ==
    CHOOSE k \in 1..Len(hist) :
        /\ Len(PagesComments(hist, video_id, k)) >= n
        /\ \A j \in 1..(k - 1) : Len(PagesComments(hist, video_id, j)) < n

\* C3: with a cap N >= 1 no comment-list request is sent once N comments are
\* accumulated, and when the cap is reached the number of requests sent is the
\* smallest k such that pages 1..k together hold at least N comments.
C3_NoRequestBeyondCap ==
    dy_max >= 1 =>
        /\ \A i \in 1..Len(dy_hist) : dy_hist[i].before < dy_max
        /\ Len(dy_comments) >= dy_max =>
             /\ \A i \in 1..Len(dy_hist) : GoodPage(dy_hist[i])
             /\ dy_comments = PagesComments(dy_hist, dy_video_id, Len(dy_hist))
             /\ Len(dy_hist) = SmallestReaching(dy_hist, dy_video_id, dy_max)
             /\ dy_alt_reqs = 0

\* C3 witness: cap 2 and a first page of two comments with a next-cursor: the
\* run is over after one request.
C3_Witness ==
    /\ dy_pc = "done"
    /\ dy_max = 2
    /\ Len(dy_hist) = 1
    /\ dy_hist[1].resp = JsonPage(<<RecHi, RecYo>>, CursorC1, "absent")
    /\ Len(dy_result.comments) = 2

\* C4: whatever the responses, the API strategy stops at a hard request-count
\* ceiling: the main loop of DouyinAPIScraper.scrape sends at most max_pages
\* requests, and TikTokAPIScraper.scrape_video_comments does not go beyond a
\* ceiling either.
C4_RequestCeiling ==
    /\ Len(dy_hist) <= max_pages
    /\ Len(tk_hist) <= max_pages

UniqueIds(comments) ==
    \A i, j \in 1..Len(comments) :
        i # j => comments[i].comment_id # comments[j].comment_id

\* C6: in the list returned by one run no two comments have the same
\* comment_id (DouyinAPIScraper, synthesized ids included, and
\* TikTokAPIScraper, records without cid included).
C6_UniqueCommentIds ==
    /\ dy_pc = "done" => UniqueIds(dy_result.comments)
    /\ tk_pc = "done" => UniqueIds(tk_result)

\* C8: when the resolver yields its sentinel the run aborts at once: no
\* comment-list request is sent and no page is navigated to.
C8_SentinelAborts ==
    /\ (dy_pc \notin {"off", "init"} /\ dy_video_id = DouyinAPISentinel) =>
          Len(dy_hist) = 0 /\ dy_alt_reqs = 0 /\ dy_result = InvalidUrlResult
    /\ (pro_pc \notin {"off", "init"}
          /\ DouyinScraperPro_extract_video_id(pro_url) = DouyinProSentinel) =>
          pro_navigations = 0
    /\ (tk_pc \notin {"off", "init"} /\ tk_video_id = TikTokAPISentinel) =>
          Len(tk_hist) = 0

NonEmptyTexts(comments) ==
    \A i \in 1..Len(comments) : Strip(comments[i].text) # <<>>

\* C9: no returned comment has a text that is empty after trimming: a record
\* whose text is missing or empty is absent from what DouyinAPIScraper and
\* TikTokAPIScraper return.
C9_NoEmptyText ==
    /\ dy_pc = "done" => NonEmptyTexts(dy_result.comments)
    /\ tk_pc = "done" => NonEmptyTexts(tk_result)

(***************************************************************************)
(* Properties of the resolvers                                             *)
(***************************************************************************)

\* r is exactly what lies in url between an occurrence of marker and the next
\* delim (or the end of url).
Between(url, marker, delim, r) ==
    \E i \in 1..Len(url) :
        /\ OccursAt(url, marker, i)
        /\ LET rest == DropFirst(url, i + Len(marker) - 1)
           IN /\ Len(r) <= Len(rest)
              /\ SubSeq(rest, 1, Len(r)) = r
              /\ ~Contains(r, delim)
              /\ Len(r) = Len(rest) \/ OccursAt(rest, delim, Len(r) + 1)

KnownMarker(url) == Contains(url, ModalMarker) \/ Contains(url, VideoMarker)

\* C7: each resolver returns, for a URL with a known marker (modal_id= or
\* /video/), exactly what lies between that marker and the next delimiter, and
\* its sentinel for a URL with no known marker.
C7_ResolverContract ==
    \A c \in Resolvers :
        res_out[c] # NotResolved =>
            IF KnownMarker(res_url)
            THEN \/ Between(res_url, ModalMarker, Amp, res_out[c])
                 \/ Between(res_url, VideoMarker, QMark, res_out[c])
            ELSE res_out[c] = Sentinel(c)

(***************************************************************************)
(* Properties of the deduplicator of DouyinScraperPro                      *)
(***************************************************************************)

TextsOf(comments) == [i \in 1..Len(comments) |-> comments[i].text]

\* The texts of a sequence whose fingerprint is not that of an earlier kept
\* text, in order.
RECURSIVE FirstByHash(_, _, _)
FirstByHash(texts, hash, seen) ==
    IF texts = <<>> THEN <<>>
    ELSE IF HashOf(hash, Head(texts)) \in seen
         THEN FirstByHash(Tail(texts), hash, seen)
         ELSE <<Head(texts)>>
              \o FirstByHash(Tail(texts), hash, seen \cup {HashOf(hash, Head(texts))})

LongEnough(text) == Len(text) >= min_text_len

\* C5 (as stated): every text extracted is retained exactly once, at the
\* position of its first occurrence, distinct texts in first-seen order.
C5_EveryTextRetainedOnce == TextsOf(pro_comments) = pro_seen_texts

\* C5 (amended): no two accumulated comments have the same trimmed text; the
\* accumulated texts are the texts of at least min_text_len characters whose
\* fingerprint hash(text) was not that of an earlier retained text, each once,
\* in first-seen order.
C5_RetainedOncePerFingerprint ==
    /\ \A i, j \in 1..Len(pro_comments) :
          i # j => pro_comments[i].text # pro_comments[j].text
    /\ TextsOf(pro_comments) =
          FirstByHash(SelectSeq(pro_seen_texts, LongEnough), pro_hash, {})

\* C5 witness: "a", "ab", "ba" were extracted, "ab" more than once; "ab" and
\* "ba" are retained, in that order.
C5_Witness ==
    /\ TextsOf(pro_comments) = <<TextAB, TextBA>>
    /\ pro_seen_texts = << <<"a">>, TextAB, TextBA >>
    /\ pro_scroll_attempts = 3
    /\ pro_consecutive_empty = 1

(***************************************************************************)
(* Properties of _parse_sentiment_response                                 *)
(***************************************************************************)

Parsed(f) == llm_results[f] # NotParsed

WrappedForms == {"bare", "json_fence", "plain_fence"}

Remainder(f, content) ==
    CASE f \in {"bare", "bare_padded"} -> Strip(content)
      [] f \in {"json_fence", "json_fence_padded", "plain_fence"} ->
            Newline \o content \o Newline
      [] f = "json_fence_tight" -> content
      [] f = "plain_fence_tight" ->
            IF StartsWith(content, <<"j", "s", "o", "n">>)
            THEN DropFirst(content, 4) ELSE content
      [] f = "json_fence_unclosed" ->
            Take(Newline \o content, Len(content) + 1 - 3)

Transient(resp) == resp.kind \in {"connection", "timeout"}

\* The requests of one call follow the retry rule: at most stop_after_attempt
\* of them, each but the last answered by a transient error, and the last
\* answered by a transient error only when the attempts are used up.
RetryRule(responses) ==
    /\ Len(responses) <= stop_after_attempt
    /\ \A j \in 1..(Len(responses) - 1) : Transient(responses[j])
    /\ Transient(responses[Len(responses)]) => Len(responses) = stop_after_attempt

\* C11: a request of analyze_sentiment that fails with a connection-class or
\* timeout-class error is issued again, up to 3 attempts in total, a
\* non-transient error is not retried, and the call returns the parsed result
\* of its first successful attempt.
C11_TransientErrorsRetried ==
    /\ \A j \in 1..Len(ba_responses) : Transient(ba_responses[j])
    /\ Len(ba_responses) < stop_after_attempt
    /\ \A c \in 1..Len(ba_calls) :
          /\ RetryRule(ba_calls[c].responses)
          /\ LET last == ba_calls[c].responses[Len(ba_calls[c].responses)]
             IN last = LlmOk(DocPositive) =>
                   /\ ba_calls[c].outcome = "return"
                   /\ ba_results[c] = _parse_sentiment_response(last.content)

(***************************************************************************)
(* C12: batch_analyze                                                      *)
(***************************************************************************)

\* The slot of the c-th call is the parsed result of a call that returned and
\* the degraded result of a call that raised.
SlotMatchesCall(c) ==
    LET call == ba_calls[c]
        last == call.responses[Len(call.responses)]
    IN IF call.outcome = "return"
       THEN ba_results[c] = _parse_sentiment_response(last.content)
       ELSE ba_results[c] = DegradedResult(ba_comments[c], call.outcome)

\* C12: for every batch_size >= 1, batch_analyze calls analyze_sentiment once
\* per comment in input order and returns len(comments) results in that
\* order; a call that raises leaves the degraded result in its slot and the
\* remaining comments are still processed.
C12_OneSlotPerComment ==
    ba_batch_size >= 1 =>
        /\ Len(ba_calls) = Len(ba_results)
        /\ Len(ba_calls) <= Len(ba_comments)
        /\ \A c \in 1..Len(ba_calls) :
              /\ ba_calls[c].comment_id = ba_comments[c]
              /\ SlotMatchesCall(c)
        /\ ba_pc = "loop" => Len(ba_calls) < Len(ba_comments)
        /\ ba_pc = "returned" => Len(ba_results) = Len(ba_comments)

C12_Witness ==
    /\ ba_pc = "returned"
    /\ ba_batch_size = 2
    /\ Len(ba_comments) = 3
    /\ ba_calls[1].outcome = "RuntimeError"
    /\ ba_calls[2].outcome = "RetryError"
    /\ ba_calls[3].outcome = "return"
    /\ ba_results[3] = ParsedResult(DocPositive)

(***************************************************************************)
(* C13: exit code of the package CLI                                       *)
(***************************************************************************)

\* C13: a run of the command line exits with code 0 if and only if at least
\* one comment was captured.
C13_ExitZeroIffCaptured ==
    cli_pc = "exited" => (cli_exit = 0 <=> Len(cli_comments) >= 1)

(***************************************************************************)
(* C14: resources of the browser strategy                                  *)
(***************************************************************************)

Released(resource) == resource \in {"none", "closed"}

\* C14: on every path that leaves the async with statement of a
\* TikTokScraper, an exception in start-up, navigation, extraction or a close
\* step included, every resource that was started (context, browser,
\* Playwright driver) has been closed or stopped.
C14_ResourcesReleased ==
    ts_pc = "exited" =>
        /\ Released(ts_context)
        /\ Released(ts_browser)
        /\ Released(ts_playwright)

(***************************************************************************)
(* C15: the scroll loop of DouyinScraperPro.scrape                         *)
(***************************************************************************)

\* C15: the scroll loop performs at most 100 extraction rounds; no round is
\* started once the cap is reached; the loop is left right after the 5th
\* consecutive round without a new comment; a round with a new comment
\* resets the consecutive-empty counter to 0; a round whose extraction raised
\* counts as an empty round and does not end the run.
C15_ScrollLoopRule ==
    [][ /\ pro_last'.round <= max_scrolls
        /\ pro_last' # pro_last =>
              /\ pro_last'.round = pro_last.round + 1
              /\ pro_pc' # "raised"
              /\ ~CapReached(pro_max, pro_comments)
              /\ pro_consecutive_empty < max_consecutive_empty
              /\ IF Len(pro_comments') > Len(pro_comments)
                 THEN /\ pro_consecutive_empty' = 0
                      /\ pro_pc' = "loop"
                 ELSE /\ pro_comments' = pro_comments
                      /\ pro_consecutive_empty' = pro_consecutive_empty + 1
                      /\ pro_pc' = IF pro_consecutive_empty' = max_consecutive_empty
                                   THEN "finish" ELSE "loop"
              /\ ~pro_last'.evaluated => pro_comments' = pro_comments
      ]_vars

\* C15 witness: after a round with a new comment, the 5th consecutive empty
\* round, one whose extraction raised, ended the loop.
C15_Witness ==
    /\ pro_pc = "finish"
    /\ Len(pro_comments) = 1
    /\ pro_consecutive_empty = max_consecutive_empty
    /\ ~pro_last.evaluated
    /\ pro_last.round = 6

(***************************************************************************)
(* C16: termination of the scroll loop of TikTokScraper                    *)
(***************************************************************************)

\* Every round so far rendered the same fixed, non-empty set of elements.
SameSetEveryRound(hist) ==
    \A j \in 1..Len(hist) : hist[j].evaluated /\ hist[j].batch = TsFixedSet

\* C16: without a cap the scroll loop of scrape_video_comments ends, also on
\* a page that renders the same fixed, non-empty set of comment elements in
\* every round: after the round that first met the set, 5 consecutive rounds
\* bring no new comment and the loop is left.
C16_FixedPageEndsLoop ==
    ( /\ ts_max = 0
      /\ SameSetEveryRound(ts_hist)
      /\ Len(ts_hist) >= 1 + max_consecutive )
    => ts_pc # "loop"

(***************************************************************************)
(* C17: the output artifact                                                *)
(***************************************************************************)

\* C17: a run of DouyinAPIScraper.scrape that finishes having captured at
\* least one comment, through the main or the alternate endpoint, has written
\* exactly one output artifact before it returns.
C17_OneArtifactPerRun ==
    (dy_pc = "done" /\ Len(dy_result.comments) >= 1) => dy_files = 1

(***************************************************************************)
(* C18: a failing page request of the API strategy                         *)
(***************************************************************************)

\* The request failed: timeout, transport exception, non-200 status or a
\* body that is no JSON.
RequestFailed(resp) == resp.kind \in {"timeout", "error", "http_error", "bad_json"}

\* A status-200 page of TikTokAPIScraper whose records all parse.
TkGoodPage(h) == GoodPage(h) /\ ~TkPageRaises(h.resp.records)

\* The comments of pages 1..k of a TikTokAPIScraper history, in page order.
RECURSIVE TkPagesComments(_, _, _)
TkPagesComments(hist, video_id, k) ==
    IF k = 0 THEN <<>>
    ELSE TkPagesComments(hist, video_id, k - 1)
         \o TkParsePage(hist[k].resp.records, video_id, 1)

\* The last request of the history failed after good pages only.
DyFailedLast ==
    /\ Len(dy_hist) >= 1
    /\ RequestFailed(dy_hist[Len(dy_hist)].resp)
    /\ \A j \in 1..(Len(dy_hist) - 1) : GoodPage(dy_hist[j])

TkFailedLast ==
    /\ Len(tk_hist) >= 1
    /\ RequestFailed(tk_hist[Len(tk_hist)].resp)
    /\ \A j \in 1..(Len(tk_hist) - 1) : TkGoodPage(tk_hist[j])

\* scrape returned the comments of the pages before the failed one: with no
\* such page, a failure result with an empty list.
DyReturnsAccumulated ==
    /\ dy_result.kind = "result"
    /\ dy_result.comments = PagesComments(dy_hist, dy_video_id, Len(dy_hist) - 1)
    /\ dy_result.success = (dy_result.comments # <<>>)

\* The first request got a non-200 status and an alternate endpoint yielded
\* comments, which scrape returned.
DyAltRecovered ==
    /\ Len(dy_hist) = 1
    /\ dy_hist[1].resp.kind = "http_error"
    /\ dy_alt_reqs >= 1
    /\ dy_result.kind = "alt"
    /\ dy_result.comments # <<>>

\* C18 (as stated): when a page request fails after earlier pages succeeded,
\* the run returns the comments of the earlier pages, unchanged and in order,
\* and when the very first request fails it returns an empty list or a
\* failure result.
C18_FailureReturnsAccumulatedOrEmpty ==
    /\ (DyFailedLast /\ dy_pc = "done") => DyReturnsAccumulated
    /\ (TkFailedLast /\ tk_pc = "done") =>
          tk_result = TkPagesComments(tk_hist, tk_video_id, Len(tk_hist) - 1)

\* C18 (amended): a failed page request ends the pagination without raising
\* and the run returns the comments of the earlier pages, unchanged and in
\* order (an empty list or a failure result when the first request failed),
\* except that DouyinAPIScraper.scrape, when its first request got a non-200
\* status, returns the comments of an alternate endpoint that yielded any.
C18_FailureReturnsAccumulatedOrAlternate ==
    /\ DyFailedLast =>
          /\ dy_pc \in {"alt", "finish", "done"}
          /\ dy_pc = "done" => (DyReturnsAccumulated \/ DyAltRecovered)
    /\ TkFailedLast =>
          /\ tk_pc = "done"
          /\ tk_result = TkPagesComments(tk_hist, tk_video_id, Len(tk_hist) - 1)

\* C18 witness: a page of two comments, then a timeout; the two comments are
\* returned.
C18_Witness ==
    /\ dy_pc = "done"
    /\ Len(dy_hist) = 2
    /\ dy_hist[1].resp = JsonPage(<<RecHi, RecYo>>, CursorC1, "absent")
    /\ dy_hist[2].resp = Failure("timeout")
    /\ Len(dy_result.comments) = 2
    /\ DyReturnsAccumulated

(***************************************************************************)
(* C19: LLM failures in scrape_and_analyze                                 *)
(***************************************************************************)

\* C19: whenever the scraping phase returned its comments, whatever the LLM
\* endpoint answers to the sentiment calls and to the summary call,
\* scrape_and_analyze computes the distribution, writes the artifact holding
\* all scraped comments and returns the VideoSummary.
C19_LlmFailureDegrades ==
    (cli_pc = "exited" /\ ba_pc = "returned") =>
        /\ cli_error = "none"
        /\ cli_returned
        /\ cli_files = 1
        /\ cli_artifact = cli_comments

(***************************************************************************)
(* C20: CommentThread.calculate_totals                                     *)
(***************************************************************************)

\* C20: calculate_totals stores main_comment.like_count plus the sum of the
\* replies' like_count, and main_comment.reply_count plus the number of
\* replies; a change of the replies leaves the stored totals as they are; a
\* second call in a row leaves them unchanged.
C20_TotalsOnDemand ==
    [][ IF th_calls' = th_calls + 1
        THEN /\ th_total_like_count' = th_main.like_count + SumLikes(th_replies)
             /\ th_total_reply_count' = th_main.reply_count + Len(th_replies)
             /\ ~th_dirty /\ th_calls >= 1 =>
                   UNCHANGED <<th_total_like_count, th_total_reply_count>>
        ELSE UNCHANGED <<th_total_like_count, th_total_reply_count>>
      ]_vars

\* C20 witness: totals computed with one reply (10 + 5 likes, 5 + 1 replies),
\* a second reply added since: the stored totals are those of the call.
C20_Witness ==
    /\ th_calls = 1
    /\ th_dirty
    /\ th_main = [like_count |-> 10, reply_count |-> 5]
    /\ th_replies = <<5, 1>>
    /\ th_total_like_count = 15
    /\ th_total_reply_count = 6

(***************************************************************************)
(* C21: VideoSummary.calculate_sentiment_distribution                      *)
(***************************************************************************)

\* The number of results with a label.
CountOf(results, label) ==
    Cardinality({i \in 1..Len(results) : results[i].sentiment = label})

RECURSIVE SumOver(_, _)
SumOver(d, labels) ==
    IF labels = {} THEN 0
    ELSE LET l == CHOOSE x \in labels : TRUE
         IN d[l] + SumOver(d, labels \ {l})

\* C21: after calculate_sentiment_distribution has returned, the map holds
\* for every label exactly the number of analysis results with that label,
\* labels without a result are absent, the counts sum to
\* len(analysis_results), and nothing of an earlier call carries over.
C21_DistributionCountsResults ==
    (vs_outcome = "returned" /\ ~vs_stale) =>
        /\ DOMAIN vs_distribution =
              {l \in SentimentLabels : CountOf(vs_results, l) > 0}
        /\ \A l \in DOMAIN vs_distribution :
              vs_distribution[l] = CountOf(vs_results, l)
        /\ SumOver(vs_distribution, DOMAIN vs_distribution) = Len(vs_results)

\* C21 witness: two positive results and a question counted after a call
\* that had counted a negative result.
C21_Witness ==
    /\ vs_outcome = "returned"
    /\ ~vs_stale
    /\ vs_results = <<AnalysisResultOf("positive"), AnalysisResultOf("question"),
                      AnalysisResultOf("positive")>>
    /\ DOMAIN vs_distribution = {"positive", "question"}
    /\ vs_distribution["positive"] = 2
    /\ vs_distribution["question"] = 1

(***************************************************************************)
(* C22: pagination of TikTokAPIScraper                                     *)
(***************************************************************************)

\* C22: TikTokAPIScraper.scrape_video_comments goes on to the next page
\* whenever the last response had status 200, carried at least one record and
\* a non-empty next-cursor, and the cap is not reached; a record list and a
\* next-cursor are all a response needs to carry.
C22_NextPageRequested ==
    ( /\ Len(tk_hist) >= 1
      /\ TkGoodPage(tk_hist[Len(tk_hist)])
      /\ ~Falsy(tk_hist[Len(tk_hist)].resp.cursor)
      /\ ~CapReached(tk_max, tk_comments) )
    => tk_pc = "loop"

(***************************************************************************)
(* C23: cursors and order of the requests of the API strategy              *)
(***************************************************************************)

\* The requests of a history chain their cursors: the first carries "0",
\* every later one the next-cursor of the response just before it.
CursorsChained(hist) ==
    /\ Len(hist) >= 1 => hist[1].sent_cursor = <<"0">>
    /\ \A j \in 2..Len(hist) : hist[j].sent_cursor = hist[j - 1].resp.cursor

Gained(hist, comments, j) ==
    (IF j < Len(hist) THEN hist[j + 1].before ELSE Len(comments)) - hist[j].before

\* The records of a TikTok page that _parse_comment normalizes.
TkNormalizable(records) == {i \in 1..Len(records) : records[i].ok}

\* The records of a Douyin page that carry a text and a user mapping.
DyNormalizable(records) == {i \in 1..Len(records) : DouyinKeeps(records[i])}

\* C24: a record that cannot be normalized is skipped on its own: every
\* status-200 page with records adds one comment per record of it that can
\* be normalized, in DouyinAPIScraper and in TikTokAPIScraper.
C24_BadRecordSkippedAlone ==
    /\ \A j \in 1..Len(dy_hist) :
          GoodPage(dy_hist[j]) =>
             Gained(dy_hist, dy_comments, j)
                = Cardinality(DyNormalizable(dy_hist[j].resp.records))
    /\ \A j \in 1..Len(tk_hist) :
          GoodPage(tk_hist[j]) =>
             Gained(tk_hist, tk_comments, j)
                = Cardinality(TkNormalizable(tk_hist[j].resp.records))

(***************************************************************************)
(* C25: re-emission across the scroll rounds of TikTokScraper              *)
(***************************************************************************)

\* How many comments of a list carry the text of one rendered element.
TimesEmitted(comments, text) ==
    Cardinality({k \in 1..Len(comments) : comments[k].text = text})

\* C25: a comment extracted in an earlier scroll round is not emitted again
\* in a later one: over a page that shows the same fixed set of elements in
\* every round, each element is in the accumulated list at most once.
C25_NoReemission ==
    SameSetEveryRound(ts_hist) =>
       \A i \in 1..Len(TsFixedSet) : TimesEmitted(ts_comments, TsFixedSet[i]) <= 1

(***************************************************************************)
(* C26: the closed set of sentiment labels                                 *)
(***************************************************************************)

\* C26: every result that _parse_sentiment_response returns, and with it
\* analyze_sentiment and batch_analyze, has a sentiment among the five
\* labels, for every response text: also for valid JSON whose sentiment
\* field is missing or holds some other string.
C26_SentimentInClosedSet ==
    \A f \in Forms :
       llm_results[f].kind \in {"parsed", "fallback"}
          => llm_results[f].sentiment \in SentimentLabels

(***************************************************************************)
(* C27: the comment_id of an analysis result                               *)
(***************************************************************************)

\* "comment_id" in result.  The degraded dict of lines 152-157 has the key.
\* A parsed result is the object the LLM wrote, and the prompt of lines
\* 171-182 gives the LLM the text and the likes of the comment, not its id;
\* the dict of the except clause of lines 214-220 has no such key.
HasCommentId(result) == result.kind = "degraded"

\* C27: for every comment passed to batch_analyze the result at the same
\* index carries that comment's comment_id, when the classification
\* succeeded and when it fell back to the degraded result.
C27_ResultCarriesCommentId ==
    \A c \in 1..Len(ba_results) :
       /\ HasCommentId(ba_results[c])
       /\ ba_results[c].comment_id = ba_comments[c]

(***************************************************************************)
(* C28: a second scrape on the same DouyinScraperPro instance              *)
(***************************************************************************)

\* A call of scrape has loaded the page and has made no round yet.
ProCallAtFirstRound ==
    pro_pc = "loop" /\ pro_scroll_attempts = 0 /\ pro_consecutive_empty = 0

\* A call of scrape has returned after max_consecutive_empty rounds, all
\* without a new comment: consecutive_empty went from 0 to the limit without
\* a reset, in as many rounds as scroll_attempts counts plus the last one.
ProCallCapturedNothing ==
    /\ pro_pc = "done"
    /\ pro_consecutive_empty = max_consecutive_empty
    /\ pro_scroll_attempts = max_consecutive_empty - 1

\* C28: each call of scrape returns only comments captured during that call:
\* a call starts from an empty accumulated list and an empty fingerprint
\* set, also the second call on the same instance, and a call whose rounds
\* captured nothing returns no comment.
C28_EachCallStartsFresh ==
    /\ ProCallAtFirstRound => pro_comments = <<>> /\ pro_seen_hashes = {}
    /\ ProCallCapturedNothing => pro_result.comments = <<>>

(***************************************************************************)
(* C29: the alternate endpoints of DouyinAPIScraper                        *)
(***************************************************************************)

\* The response to the latest comment-list request.
DyLastResp == dy_hist[Len(dy_hist)].resp

\* C29: scrape tries the alternate endpoints only when the very first
\* comment-list request returns a non-200 status, and returns the alternate
\* result only if it holds at least one comment; a non-200 status on a later
\* page triggers no alternate attempt and ends the loop with the accumulated
\* comments kept, and a status-200 response without the comment-list field
\* ends the loop without any fallback.
C29_AlternateOnlyOnFirstPage ==
    /\ (dy_pc = "alt" \/ dy_alt_reqs > 0) =>
          Len(dy_hist) = 1 /\ dy_hist[1].resp.kind = "http_error"
    /\ (dy_pc = "done" /\ dy_result.kind = "alt") =>
          dy_alt_reqs > 0 /\ Len(dy_result.comments) >= 1
    /\ (Len(dy_hist) >= 2 /\ DyLastResp.kind = "http_error") =>
          /\ dy_pc \in {"finish", "done"}
          /\ dy_alt_reqs = 0
          /\ dy_comments = PagesComments(dy_hist, dy_video_id, Len(dy_hist) - 1)
          /\ dy_pc = "done" => DyReturnsAccumulated
    /\ (Len(dy_hist) >= 1 /\ DyLastResp.kind = "json" /\ ~DyLastResp.has_field) =>
          /\ dy_pc \in {"finish", "done"}
          /\ dy_alt_reqs = 0
          /\ dy_pc = "done" => dy_result.kind = "result"

\* C29 witness: page 1 brings two comments, the request for page 2 gets a
\* non-200 status; no alternate endpoint is tried and the two comments are
\* returned.
C29_Witness ==
    /\ dy_pc = "done"
    /\ Len(dy_hist) = 2
    /\ dy_hist[1].resp = JsonPage(<<RecHi, RecYo>>, CursorC1, "absent")
    /\ dy_hist[2].resp.kind = "http_error"
    /\ dy_alt_reqs = 0
    /\ Len(dy_result.comments) = 2

(***************************************************************************)
(* C30: _navigate_with_retry                                               *)
(***************************************************************************)

\* The parts of C30 on the attempts: at most max_retries of them, none
\* after a success, a wait after every failed attempt but the last, and the
\* last failure raised once max_retries attempts have failed.
NavAttemptsRule ==
    /\ nav_gotos <= nav_max_retries
    /\ nav_gotos = Len(nav_failures) + (IF nav_navigated THEN 1 ELSE 0)
    /\ nav_navigated => nav_pc = "returned"
    /\ nav_pc = "loop" => Len(nav_sleeps) = Len(nav_failures)
    /\ nav_pc = "raised" =>
          /\ Len(nav_failures) = nav_max_retries
          /\ Len(nav_sleeps) = Len(nav_failures) - 1
          /\ nav_raised = nav_failures[Len(nav_failures)]
    /\ (nav_max_retries >= 1 /\ Len(nav_failures) = nav_max_retries) =>
          nav_pc = "raised"

\* C30: _navigate_with_retry makes at most max_retries navigation attempts,
\* returns right after the first attempt that succeeds, waits between a
\* failed attempt and the next one, raises the last failure when all
\* max_retries attempts fail, and never returns normally without one
\* successful navigation.
C30_NavigateWithRetry ==
    /\ NavAttemptsRule
    /\ nav_pc = "returned" => nav_navigated

=============================================================================
